---- MODULE Spec2Model ----
(***************************************************************************)
(* A model of mesh-3d-utils/core: the index mappings (identity, symmetric, *)
(* array) with their compile operation, and the topology queries of Mesh   *)
(* (face, face_adjacent, edges_with, vertex_neighbors).                    *)
(*                                                                         *)
(* Typed arrays are sequences; the code's 0-based index i is position i+1. *)
(* A 16-float transform block is one abstract matrix: a rotation by        *)
(* k * 120 degrees about a fixed axis (k in 0..2, 0 the identity), or the  *)
(* all-zero block a fresh Float32Array holds.                              *)
(***************************************************************************)
EXTENDS Integers, Sequences, FiniteSets, TLC

VARIABLES
    ab,       \* mapping spec: the upstream map A : X -> Y
    bc,       \* mapping spec: the downstream map B : Y -> Z
    cd,       \* mapping spec: a third map C, once a chain was compiled
    ac,       \* mapping spec: result of ArrayGeometryMap.compile(ab, bc)
    chain,    \* mapping spec: the two bracketings of compile over ab, bc, cd
    mq,       \* mapping spec: the last fromBase / toBase query on ab
    mesh,     \* mesh spec: the MeshInfo under query
    nb,       \* mesh spec: the last vertex_neighbors call and its outcome
    fa,       \* mesh spec: the last face_adjacent call and its outcome
    fq,       \* mesh spec: the last face call and its outcome
    tri,      \* triangulate spec: the outcome of TriangulateGeometryFunction.update
    sub,      \* subdivision spec: the outcome of SubdivisionSurfaceGeometry.update
    cf,       \* mapping spec: the last compileGeometryMapsFrom call and its outcome
    tg,       \* mesh spec: the last MeshGeometry.fromThreeGeometry call and its outcome
    cl,       \* mesh spec: the last clone call and its outcome
    sym,      \* symmetric spec: the SymmetricGeometryMap under assignment and its last write
    rep       \* repeat spec: the options, the base at construction and the update() calls made

mapVars == <<ab, bc, cd, ac, chain, mq, cf>>
meshVars == <<mesh, nb, fa, fq, tg, cl>>
vars == <<ab, bc, cd, ac, chain, mq, mesh, nb, fa, fq, tri, sub, cf, tg, cl, sym, rep>>

(***************************************************************************)
(* Bounds of the model.                                                    *)
(***************************************************************************)
\* largest element count of a generated mapping side
MaxN == 2

None == [kind |-> "none"]

(***************************************************************************)
(* Typed arrays.                                                           *)
(***************************************************************************)
\* what an out-of-range read of a typed array yields (undefined)
Undef == -1

Min(a, b) == IF a < b THEN a ELSE b

\* arr[i] of the code
Get(arr, i) == IF i >= 0 /\ i < Len(arr) THEN arr[i + 1] ELSE Undef

\* TypedArray.prototype.subarray(begin, end): an undefined begin is 0, an
\* undefined end is the length, both are clamped to the length, and an end
\* not after the begin gives an empty view
Subarray(arr, begin, end) ==
    LET b == IF begin = Undef THEN 0 ELSE Min(begin, Len(arr))
        e == IF end = Undef THEN Len(arr) ELSE Min(end, Len(arr))
    IN  IF e <= b THEN <<>> ELSE SubSeq(arr, b + 1, e)

\* the elements of a sequence, as a set
Range(s) == {s[k] : k \in 1..Len(s)}

\* the elements of a finite set of integers in ascending order
SortedSeq(S) ==
    [k \in 1..Cardinality(S) |->
       CHOOSE x \in S : Cardinality({y \in S : y < x}) = k - 1]

RECURSIVE Flatten(_)
\* concatenation of a sequence of sequences
Flatten(ss) ==
    IF Len(ss) = 0 THEN <<>>
    ELSE IF Len(ss) = 1 THEN ss[1]
    ELSE Flatten(SubSeq(ss, 1, Len(ss) \div 2))
         \o Flatten(SubSeq(ss, (Len(ss) \div 2) + 1, Len(ss)))

(***************************************************************************)
(* Matrix4, restricted to the rotations by k * 120 degrees about one axis. *)
(***************************************************************************)
\* new Matrix4().identity()
Matrix4Identity == 0
\* the 16 zeros of a block of a fresh Float32Array that was never written
ZeroBlock == 3

\* Matrix4.premultiply: t2.premultiply(t1) is t1 * t2
Premultiply(t2, t1) ==
    IF t1 = ZeroBlock \/ t2 = ZeroBlock THEN ZeroBlock ELSE (t1 + t2) % 3

\* Matrix4.invert
Invert(t) == IF t = ZeroBlock THEN ZeroBlock ELSE (3 - t) % 3

(***************************************************************************)
(* IdentityGeometryMap                                                     *)
(***************************************************************************)
IdentityGeometryMap(n) == [kind |-> "identity", length |-> n]

IdentityToBase(m, index) ==
    [indices |-> <<index>>, transforms |-> <<Matrix4Identity>>]

IdentityFromBase(m, index) ==
    [indices |-> <<index>>, transforms |-> <<Matrix4Identity>>]

(***************************************************************************)
(* SymmetricGeometryMap                                                    *)
(***************************************************************************)
\* a setter that would copy the written direction instead of inverting it
SymmetricInverseCopied(dir) == dir

\* the inverse direction the setters derive: out.index[in.index[i]] = i and
\* out.transform[in.index[i]] = invert(in.transform[i]); a slot no i writes
\* keeps the zero of the fresh array
SymmetricInverse(dir) ==
    LET n == Len(dir.index)
        src(j) == {i \in 0..(n - 1) : dir.index[i + 1] = j}
        last(j) == CHOOSE i \in src(j) : \A k \in src(j) : k <= i
    IN  [index |-> [j \in 1..n |->
                      IF src(j - 1) = {} THEN 0 ELSE last(j - 1)],
         transform |-> [j \in 1..Len(dir.transform) |->
                      IF src(j - 1) = {} THEN ZeroBlock
                      ELSE Invert(dir.transform[last(j - 1) + 1])]]

\* set self2base(self2base): stores it and recomputes base2self
SymmetricSetSelf2Base(self2base) ==
    [kind |-> "symmetric",
     self2base |-> self2base,
     base2self |-> SymmetricInverse(self2base)]

\* set base2self(base2self): stores it and recomputes self2base
SymmetricSetBase2Self(base2self) ==
    [kind |-> "symmetric",
     base2self |-> base2self,
     self2base |-> SymmetricInverse(base2self)]

\* the lookup both directions share: the stored permutation is read as if
\* it were an end-offset table, and the slice of it is returned
SymmetricLookup(dir, index) ==
    LET offset0 == IF index = 0 THEN 0 ELSE Get(dir.index, index - 1)
        offset1 == Get(dir.index, index)
        indices == Subarray(dir.index, offset0, offset1)
    IN  [indices |-> indices,
         transforms |-> [i \in 1..Len(indices) |->
                           IF indices[i] < Len(dir.transform)
                           THEN dir.transform[indices[i] + 1]
                           ELSE ZeroBlock]]

SymmetricToBase(m, index) == SymmetricLookup(m.self2base, index)

SymmetricFromBase(m, index) == SymmetricLookup(m.base2self, index)

(***************************************************************************)
(* ArrayGeometryMap                                                        *)
(***************************************************************************)
\* the constructor: lengths are the lengths of the two offset tables
ArrayGeometryMapNew(initial) ==
    [kind |-> "array",
     self2base |-> initial.self2base,
     base2self |-> initial.base2self,
     lengths |-> [base |-> Len(initial.base2self.offset1),
                  self |-> Len(initial.self2base.offset1)]]

\* static map(...mappings): packs one list of {index, transform} per key
ArrayMapOf(mappings) ==
    LET all == Flatten(mappings)
        upto(i) == Len(Flatten(SubSeq(mappings, 1, i)))
    IN  [offset1 |-> [i \in 1..Len(mappings) |-> upto(i)],
         indices |-> [k \in 1..Len(all) |-> all[k].index],
         transforms |-> [k \in 1..Len(all) |-> all[k].transform]]

\* static identity(n)
ArrayIdentity(n) ==
    LET self2self ==
            [indices |-> [i \in 1..n |-> i - 1],
             offset1 |-> [i \in 1..(n + 1) |-> IF i <= n THEN i ELSE 0],
             transforms |-> [i \in 1..n |-> Matrix4Identity]]
    IN  ArrayGeometryMapNew([self2base |-> self2self, base2self |-> self2self])

\* the lookup of fromBase and toBase: the k-th transform returned is block
\* k of the buffer (transforms_offset starts at 0, not at offset0 * 16)
ArrayLookup(dir, index) ==
    LET offset0 == IF index = 0 THEN 0 ELSE Get(dir.offset1, index - 1)
        offset1 == Get(dir.offset1, index)
        indices == Subarray(dir.indices, offset0, offset1)
    IN  [indices |-> indices,
         transforms |-> [i \in 1..Len(indices) |->
                           IF i <= Len(dir.transforms)
                           THEN dir.transforms[i] ELSE ZeroBlock]]

ArrayFromBase(m, index) == ArrayLookup(m.base2self, index)

ArrayToBase(m, index) == ArrayLookup(m.self2base, index)

(***************************************************************************)
(* GeometryMap: dispatch on the class of the map                           *)
(***************************************************************************)
Lengths(m) ==
    CASE m.kind = "identity" -> [base |-> m.length, self |-> m.length]
      [] m.kind = "symmetric" -> [base |-> Len(m.self2base.index),
                                  self |-> Len(m.self2base.index)]
      [] m.kind = "array" -> m.lengths

FromBase(m, index) ==
    CASE m.kind = "identity" -> IdentityFromBase(m, index)
      [] m.kind = "symmetric" -> SymmetricFromBase(m, index)
      [] m.kind = "array" -> ArrayFromBase(m, index)

ToBase(m, index) ==
    CASE m.kind = "identity" -> IdentityToBase(m, index)
      [] m.kind = "symmetric" -> SymmetricToBase(m, index)
      [] m.kind = "array" -> ArrayToBase(m, index)

(***************************************************************************)
(* ArrayGeometryMap.compile and the chain compiler                         *)
(***************************************************************************)
LengthMismatch == [kind |-> "error", message |-> "lengths do not match"]

\* compileDirection(isForward): every path base -> middle -> self is
\* produced in loop order; path number k is stored at indices[k], and a
\* store past the end of the n_self-long buffers is dropped by the typed
\* array, while offset1 records the running path count i_self
CompileDirection(a, b, isForward) ==
    LET m01(i) == IF isForward THEN FromBase(a, i) ELSE ToBase(b, i)
        m12(i) == IF isForward THEN FromBase(b, i) ELSE ToBase(a, i)
        n_base == IF isForward THEN Lengths(a).base ELSE Lengths(b).self
        n_self == IF isForward THEN Lengths(b).self ELSE Lengths(a).base
        inner(m1, i_1) ==
            LET m2 == m12(m1.indices[i_1])
            IN  [i_2 \in 1..Len(m2.indices) |->
                   [index |-> m2.indices[i_2],
                    transform |-> Premultiply(m2.transforms[i_2],
                                              m1.transforms[i_1])]]
        paths(i_base) ==
            LET m1 == m01(i_base)
            IN  Flatten([i_1 \in 1..Len(m1.indices) |-> inner(m1, i_1)])
        rows == [i \in 1..n_base |-> paths(i - 1)]
        all == Flatten(rows)
    IN  [offset1 |-> [i \in 1..n_base |-> Len(Flatten(SubSeq(rows, 1, i)))],
         indices |-> [k \in 1..n_self |->
                        IF k <= Len(all) THEN all[k].index ELSE 0],
         transforms |-> [k \in 1..n_self |->
                        IF k <= Len(all) THEN all[k].transform ELSE ZeroBlock]]

\* static compile(ab, bc)
Compile(a, b) ==
    IF Lengths(a).self # Lengths(b).base THEN LengthMismatch
    ELSE ArrayGeometryMapNew([base2self |-> CompileDirection(a, b, TRUE),
                              self2base |-> CompileDirection(a, b, FALSE)])

RECURSIVE CompileGeometryMaps(_, _)
\* compileGeometryMaps(n, ...maps): a right fold of compile; an error of
\* the inner call propagates
CompileGeometryMaps(n, maps) ==
    IF Len(maps) = 0 THEN IdentityGeometryMap(n)
    ELSE IF Len(maps) = 1 THEN maps[1]
    ELSE LET bcd == CompileGeometryMaps(n, Tail(maps))
         IN  IF bcd.kind = "error" THEN bcd
             ELSE IF Lengths(maps[1]).self # Lengths(bcd).base
                  THEN LengthMismatch
                  ELSE Compile(maps[1], bcd)

\* the maps relations(self) yields while walking the base pointers from
\* geometry number self up to geometry number base, the nearest first;
\* geometries[k + 1] is the map of geometry k, whose base is geometry k - 1
Relations(geometries, self, base) ==
    [k \in 1..(self - base) |-> geometries[self - k + 2]]

\* compileGeometryMapsFrom(self, base) for one element kind
CompileGeometryMapsFrom(geometries, self, base) ==
    CompileGeometryMaps(Lengths(geometries[base + 1]).base,
                        Relations(geometries, self, base))

(***************************************************************************)
(* The maps the mapping specification draws its inputs from.               *)
(***************************************************************************)
\* largest size of a generated permutation
MaxPerm == 3

IdentityBlocks(n) == [i \in 1..n |-> Matrix4Identity]

\* the permutations of 0..n-1, as index arrays
IndexPermutations(n) ==
    {p \in [1..n -> 0..(n - 1)] : \A i, j \in 1..n : p[i] = p[j] => i = j}

\* the two permutations of the symmetric compile test
TestPermP == <<1, 4, 3, 5, 2, 0>>
TestPermQ == <<4, 1, 2, 5, 3, 0>>

\* an array map whose two directions store the relation R between
\* 0..nbase-1 and 0..nself-1, built with ArrayGeometryMap.map
ArrayFromRelation(nbase, nself, R) ==
    LET entry(i) == [index |-> i, transform |-> Matrix4Identity]
        row(S) == LET s == SortedSeq(S) IN [k \in 1..Len(s) |-> entry(s[k])]
    IN  ArrayGeometryMapNew(
          [base2self |-> ArrayMapOf([i \in 1..nbase |->
                           row({z \in 0..(nself - 1) : <<i - 1, z>> \in R})]),
           self2base |-> ArrayMapOf([j \in 1..nself |->
                           row({x \in 0..(nbase - 1) : <<x, j - 1>> \in R})])])

RelationMaps ==
    UNION {{ArrayFromRelation(n[1], n[2], R) :
               R \in SUBSET ((0..(n[1] - 1)) \X (0..(n[2] - 1)))} :
           n \in (1..MaxN) \X (1..MaxN)}

SymmetricMaps ==
    UNION {{SymmetricSetBase2Self([index |-> p, transform |-> IdentityBlocks(n)]) :
               p \in IndexPermutations(n)} : n \in 1..MaxPerm}
    \cup UNION {{SymmetricSetSelf2Base([index |-> p, transform |-> IdentityBlocks(n)]) :
               p \in IndexPermutations(n)} : n \in 1..MaxPerm}
    \cup {SymmetricSetBase2Self([index |-> p, transform |-> IdentityBlocks(6)]) :
               p \in {TestPermP, TestPermQ}}

IdentityMaps == {IdentityGeometryMap(n) : n \in 1..MaxPerm}

ArrayIdentityMaps == {ArrayIdentity(n) : n \in 0..MaxN}

\* maps of a refinement: two base elements with three descendants, and
\* three base elements merged into one
RefinementMaps ==
    {ArrayFromRelation(2, 3, {<<0, 0>>, <<0, 1>>, <<1, 2>>}),
     ArrayFromRelation(3, 1, {<<0, 0>>, <<1, 0>>, <<2, 0>>})}

\* a map built with ArrayGeometryMap.map whose entries carry different
\* transforms: base 0 maps to self 0, base 1 to self 1 and 2 by rotations
RotatedMaps ==
    {ArrayGeometryMapNew(
       [base2self |-> ArrayMapOf(<<
           <<[index |-> 0, transform |-> Matrix4Identity]>>,
           <<[index |-> 1, transform |-> 1], [index |-> 2, transform |-> 2]>> >>),
        self2base |-> ArrayMapOf(<<
           <<[index |-> 0, transform |-> Matrix4Identity]>>,
           <<[index |-> 1, transform |-> Invert(1)]>>,
           <<[index |-> 1, transform |-> Invert(2)]>> >>)])}

Maps ==
    RelationMaps \cup SymmetricMaps \cup IdentityMaps \cup ArrayIdentityMaps
    \cup RefinementMaps \cup RotatedMaps

\* an empty MeshInfo, what the mesh variables hold in the mapping spec
NoMesh ==
    [vertices |-> [x |-> <<>>, y |-> <<>>, z |-> <<>>],
     faces |-> [indicesOffset1 |-> <<>>, indices |-> <<>>],
     edges |-> [creased |-> {}]]

(***************************************************************************)
(* The mapping specification: two maps are drawn, then queried, compiled   *)
(* and compiled again with a third map in both bracketings.                *)
(***************************************************************************)
InitMap ==
    /\ ab \in Maps
    /\ bc \in Maps
    /\ cd = None
    /\ ac = None
    /\ chain = None
    /\ mq = None
    /\ mesh = NoMesh
    /\ nb = None
    /\ fa = None
    /\ fq = None
    /\ tri = None
    /\ sub = None
    /\ cf = None
    /\ tg = None
    /\ cl = None
    /\ sym = None
    /\ rep = None

\* ab.fromBase(i)
QueryFromBase(i) ==
    /\ ac = None
    /\ mq = None
    /\ i \in 0..(Lengths(ab).base - 1)
    /\ mq' = [dir |-> "fromBase", index |-> i, result |-> FromBase(ab, i)]
    /\ UNCHANGED <<ab, bc, cd, ac, chain, mesh, nb, fa, fq, tri, sub, cf, tg, cl, sym, rep>>

\* ab.toBase(j)
QueryToBase(j) ==
    /\ ac = None
    /\ mq = None
    /\ j \in 0..(Lengths(ab).self - 1)
    /\ mq' = [dir |-> "toBase", index |-> j, result |-> ToBase(ab, j)]
    /\ UNCHANGED <<ab, bc, cd, ac, chain, mesh, nb, fa, fq, tri, sub, cf, tg, cl, sym, rep>>

\* ac = ArrayGeometryMap.compile(ab, bc)
CompileAB ==
    /\ ac = None
    /\ mq = None
    /\ ac' = Compile(ab, bc)
    /\ UNCHANGED <<ab, bc, cd, chain, mq, mesh, nb, fa, fq, tri, sub, cf, tg, cl, sym, rep>>

\* compile(compile(ab, bc), x) and compileGeometryMaps(n, ab, bc, x)
CompileChain(x) ==
    /\ ac.kind = "array"
    /\ chain = None
    /\ Lengths(bc).self = Lengths(x).base
    /\ cd' = x
    /\ chain' = [left |-> Compile(ac, x),
                 right |-> CompileGeometryMaps(Lengths(ab).base, <<ab, bc, x>>)]
    /\ UNCHANGED <<ab, bc, ac, mq, mesh, nb, fa, fq, tri, sub, cf, tg, cl, sym, rep>>

\* the chain G0 <- G1 <- G2: G0 is a MeshGeometry with identity maps, ab is
\* the map of G1 and bc the map of G2
GeometryChain == <<IdentityGeometryMap(Lengths(ab).base), ab, bc>>

\* compileGeometryMapsFrom(G_self, G_base) on the chain
CompileFrom(self, base) ==
    /\ cf = None
    /\ ac = None
    /\ mq = None
    /\ Lengths(ab).self = Lengths(bc).base
    /\ cf' = [self |-> self, base |-> base,
              result |-> CompileGeometryMapsFrom(GeometryChain, self, base)]
    /\ UNCHANGED <<ab, bc, cd, ac, chain, mq, mesh, nb, fa, fq, tri, sub, tg, cl, sym, rep>>

NextMap ==
    \/ \E i \in 0..6 : QueryFromBase(i)
    \/ \E j \in 0..6 : QueryToBase(j)
    \/ CompileAB
    \/ \E x \in Maps : CompileChain(x)
    \/ \E self \in 0..2 : \E base \in 0..self : CompileFrom(self, base)

SpecMap == InitMap /\ [][NextMap]_vars

(***************************************************************************)
(* Mesh: face views and the topology queries                               *)
(***************************************************************************)
\* edgeKey1(v0, v1): the key `${min}_${max}` of an undirected edge
EdgeKey1(v0, v1) ==
    IF v0 < v1 THEN [sep |-> "_", a |-> v0, b |-> v1]
    ELSE [sep |-> "_", a |-> v1, b |-> v0]

\* edgeKey(faceEdge)
EdgeKey(faceEdge) ==
    EdgeKey1(Get(faceEdge.face.vertices, faceEdge.edge),
             Get(faceEdge.face.vertices, (faceEdge.edge + 1) % faceEdge.face.edges))

FaceOutOfBounds == [kind |-> "error", message |-> "face out of bounds"]

\* a face view that always starts at the first index of the buffer
FaceFromStart(info, index) ==
    IF index < 0 \/ index >= Len(info.faces.indicesOffset1) THEN FaceOutOfBounds
    ELSE [index |-> index,
          edges |-> info.faces.indicesOffset1[index + 1],
          vertices |-> Subarray(info.faces.indices, 0,
                                info.faces.indicesOffset1[index + 1]),
          indicesOffset |-> <<0, info.faces.indicesOffset1[index + 1]>>]

\* static face(info, index)
Face(info, index) ==
    IF index < 0 \/ index >= Len(info.faces.indicesOffset1) THEN FaceOutOfBounds
    ELSE LET offset0 == IF index = 0 THEN 0
                        ELSE info.faces.indicesOffset1[index]
             offset1 == info.faces.indicesOffset1[index + 1]
         IN  [index |-> index,
              edges |-> offset1 - offset0,
              vertices |-> Subarray(info.faces.indices, offset0, offset1),
              indicesOffset |-> <<offset0, offset1>>]

\* a j1 that steps with j0 without returning to offset0
NextInFaceNoWrap(j0, offset0, offset1) == j0 + 1

\* the position j1 that accompanies j0 in the loops over a face: it starts
\* at offset0 + 1 and steps with j0, returning to offset0 when its next
\* value would be offset1
NextInFace(j0, offset0, offset1) ==
    IF j0 = offset0 THEN offset0 + 1
    ELSE IF j0 + 1 = offset1 THEN offset0 ELSE j0 + 1

\* a face_adjacent that scans the queried face as well
FaceAdjacentAnyFace(info, faceEdge) ==
    LET indices == info.faces.indices
        face == faceEdge.face
        i0 == Get(face.vertices, faceEdge.edge)
        i1 == Get(face.vertices, (faceEdge.edge + 1) % face.edges)
        off0(face1) == IF face1 = 0 THEN 0 ELSE info.faces.indicesOffset1[face1]
        off1(face1) == info.faces.indicesOffset1[face1 + 1]
        v01(face1, j0) ==
            /\ Get(indices, j0) = i0
            /\ Get(indices, NextInFace(j0, off0(face1), off1(face1))) = i1
        v10(face1, j0) ==
            /\ Get(indices, NextInFace(j0, off0(face1), off1(face1))) = i0
            /\ Get(indices, j0) = i1
        hits == {h \in (0..(Len(info.faces.indicesOffset1) - 1)) \X (0..(Len(indices) - 1)) :
                    /\ h[2] >= off0(h[1])
                    /\ h[2] < off1(h[1])
                    /\ (v01(h[1], h[2]) \/ v10(h[1], h[2]))}
        first == CHOOSE h \in hits : \A g \in hits :
                    h[1] < g[1] \/ (h[1] = g[1] /\ h[2] <= g[2])
    IN  IF hits = {} THEN [kind |-> "undefined"]
        ELSE [kind |-> "found",
              faceEdge |-> [face |-> Face(info, first[1]),
                            edge |-> first[2] - off0(first[1])],
              order |-> IF v01(first[1], first[2]) THEN "v01" ELSE "v10"]

\* static face_adjacent(info, {face, edge}): the first match in the order
\* of the two loops (face1 ascending, then j0 ascending), or undefined
FaceAdjacent(info, faceEdge) ==
    LET indices == info.faces.indices
        face == faceEdge.face
        i0 == Get(face.vertices, faceEdge.edge)
        i1 == Get(face.vertices, (faceEdge.edge + 1) % face.edges)
        off0(face1) == IF face1 = 0 THEN 0 ELSE info.faces.indicesOffset1[face1]
        off1(face1) == info.faces.indicesOffset1[face1 + 1]
        v01(face1, j0) ==
            /\ Get(indices, j0) = i0
            /\ Get(indices, NextInFace(j0, off0(face1), off1(face1))) = i1
        v10(face1, j0) ==
            /\ Get(indices, NextInFace(j0, off0(face1), off1(face1))) = i0
            /\ Get(indices, j0) = i1
        hits == {h \in (0..(Len(info.faces.indicesOffset1) - 1)) \X (0..(Len(indices) - 1)) :
                    /\ h[1] # face.index
                    /\ h[2] >= off0(h[1])
                    /\ h[2] < off1(h[1])
                    /\ (v01(h[1], h[2]) \/ v10(h[1], h[2]))}
        first == CHOOSE h \in hits : \A g \in hits :
                    h[1] < g[1] \/ (h[1] = g[1] /\ h[2] <= g[2])
    IN  IF hits = {} THEN [kind |-> "undefined"]
        ELSE [kind |-> "found",
              faceEdge |-> [face |-> Face(info, first[1]),
                            edge |-> first[2] - off0(first[1])],
              order |-> IF v01(first[1], first[2]) THEN "v01" ELSE "v10"]

\* static edges_with(info, vertex): in face order, then ordinal order
EdgesWith(info, vertex) ==
    LET indices == info.faces.indices
        n == Len(info.faces.indicesOffset1)
        ofFace(face_i) ==
            LET face == Face(info, face_i)
                offset0 == face.indicesOffset[1]
                offset1 == face.indicesOffset[2]
                touches(v0) ==
                    \/ Get(indices, v0) = vertex
                    \/ Get(indices, NextInFace(v0, offset0, offset1)) = vertex
                ords == SortedSeq({v0 \in offset0..(offset1 - 1) : touches(v0)})
            IN  [k \in 1..Len(ords) |->
                   [faceEdge |-> [face |-> face, edge |-> ords[k] - offset0],
                    order |-> IF Get(indices, ords[k]) = vertex
                              THEN "v01" ELSE "v10"]]
    IN  Flatten([f \in 1..n |-> ofFace(f - 1)])

(***************************************************************************)
(* Mesh.vertex_neighbors                                                   *)
(***************************************************************************)
\* the first position among the positions hit, or 0 when there is none
FirstOf(hit) ==
    IF hit = {} THEN 0 ELSE CHOOSE k \in hit : \A j \in hit : k <= j

\* arr.splice(k, 1) of findRemove
RemoveAt(s, k) == SubSeq(s, 1, k - 1) \o SubSeq(s, k + 1, Len(s))

Reverse(s) == [k \in 1..Len(s) |-> s[Len(s) + 1 - k]]

Neighbor(face, e0, e1) == [kind |-> "neighbor", face |-> face, edges |-> <<e0, e1>>]

Sentinel(b) == [kind |-> "boolean", value |-> b]

NotFound == [kind |-> "error", message |-> "not found"]

SeedNotFound == [kind |-> "error", message |-> "edge_0 not found"]

\* a twin_edge that also asks for the orientation of edge
TwinEdgeSameOrder(pool, edge) ==
    FirstOf({k \in 1..Len(pool) :
               pool[k].key = edge.key /\ pool[k].order = edge.order})

\* twin_edge: position in the pool of the first edge with the key of edge
TwinEdge(pool, edge) ==
    FirstOf({k \in 1..Len(pool) : pool[k].key = edge.key})

\* face_second_edge: position in the pool of the first edge of edge's face
FaceSecondEdge(pool, edge) ==
    FirstOf({k \in 1..Len(pool) :
               pool[k].faceEdge.face.index = edge.faceEdge.face.index})

RECURSIVE ForwardWalk(_, _, _)
\* the loop of lines 297-305: neighbors are pushed
ForwardWalk(pool, edge, out) ==
    LET k1 == FaceSecondEdge(pool, edge)
        pool1 == RemoveAt(pool, k1)
        out1 == Append(out, Neighbor(edge.faceEdge.face, edge, pool[k1]))
        k2 == TwinEdge(pool1, pool[k1])
    IN  IF k1 = 0 THEN NotFound
        ELSE IF k2 = 0 THEN [kind |-> "ok", pool |-> pool1, neighbors |-> out1]
        ELSE ForwardWalk(RemoveAt(pool1, k2), pool1[k2], out1)

RECURSIVE BackwardWalk(_, _, _)
\* the loop of lines 312-320: neighbors are unshifted, edge pair reversed
BackwardWalk(pool, edge, out) ==
    LET k1 == FaceSecondEdge(pool, edge)
        pool1 == RemoveAt(pool, k1)
        out1 == <<Neighbor(edge.faceEdge.face, pool[k1], edge)>> \o out
        k2 == TwinEdge(pool1, pool[k1])
    IN  IF k1 = 0 THEN NotFound
        ELSE IF k2 = 0 THEN [kind |-> "ok", pool |-> pool1, neighbors |-> out1]
        ELSE BackwardWalk(RemoveAt(pool1, k2), pool1[k2], out1)

\* lines 263-266: the pool, the edges at the vertex with their keys
KeyedEdgesWith(info, vertex) ==
    LET found == EdgesWith(info, vertex)
    IN  [k \in 1..Len(found) |->
           [faceEdge |-> found[k].faceEdge,
            order |-> found[k].order,
            key |-> EdgeKey(found[k].faceEdge)]]

\* a start that would read the last edge without popping it from the pool
WalkForwardKeepingEdge0(edges) ==
    IF Len(edges) = 0 THEN [kind |-> "ok", pool |-> <<>>, neighbors |-> <<>>]
    ELSE ForwardWalk(edges, edges[Len(edges)], <<>>)

\* lines 295-305: edge0 = edges.pop() and the forward walk from it; with
\* an empty pool edge0 is undefined and the loop body never runs
WalkForward(edges) ==
    IF Len(edges) = 0 THEN [kind |-> "ok", pool |-> <<>>, neighbors |-> <<>>]
    ELSE ForwardWalk(SubSeq(edges, 1, Len(edges) - 1), edges[Len(edges)], <<>>)

\* lines 307-309: continuous, and the sentinel pushed when it is false
NoteDiscontinuity(fwd, note_discontinuity) ==
    IF fwd.kind = "error" THEN fwd
    ELSE [kind |-> "ok",
          pool |-> fwd.pool,
          continuous |-> (Len(fwd.pool) = 0),
          neighbors |-> IF note_discontinuity /\ Len(fwd.pool) # 0
                        THEN Append(fwd.neighbors, Sentinel(Len(fwd.pool) = 0))
                        ELSE fwd.neighbors]

\* lines 311-321: the backward walk from the twin of edge0
WalkBackward(noted, edge0) ==
    IF noted.kind = "error" \/ Len(noted.pool) = 0 THEN noted
    ELSE LET k0 == TwinEdge(noted.pool, edge0)
             bwd == BackwardWalk(RemoveAt(noted.pool, k0), noted.pool[k0],
                                 noted.neighbors)
         IN  IF k0 = 0 THEN noted
             ELSE IF bwd.kind = "error" THEN bwd
             ELSE [noted EXCEPT !.pool = bwd.pool, !.neighbors = bwd.neighbors]

\* lines 323-355: the rotation (and mirroring) of the sequence to the seed
SeedRotate(neighbors, edge_0) ==
    LET matches(x) ==
            /\ x.kind = "neighbor"
            /\ x.face.index = edge_0.face.index
            /\ \/ x.edges[1].faceEdge.edge = edge_0.edge
               \/ x.edges[2].faceEdge.edge = edge_0.edge
        i == FirstOf({k \in 1..Len(neighbors) : matches(neighbors[k])})
        n == Len(neighbors)
        swap(x) == IF x.kind = "neighbor"
                   THEN Neighbor(x.face, x.edges[2], x.edges[1]) ELSE x
        moved == SubSeq(neighbors, i + 1, n) \o SubSeq(neighbors, 1, i)
    IN  IF i = 0 THEN SeedNotFound
        ELSE IF neighbors[i].edges[1].faceEdge.edge = edge_0.edge
        THEN [kind |-> "ok",
              neighbors |-> SubSeq(neighbors, i, n) \o SubSeq(neighbors, 1, i - 1)]
        ELSE [kind |-> "ok",
              neighbors |-> Reverse([k \in 1..n |-> swap(moved[k])])]

\* lines 323-355 applied to the outcome of the walks; edge_0 is None when
\* the argument is omitted
WalkSeed(walked, edge_0) ==
    IF walked.kind = "error" \/ edge_0 = None THEN walked
    ELSE LET seeded == SeedRotate(walked.neighbors, edge_0)
         IN  IF seeded.kind = "error" THEN seeded
             ELSE [walked EXCEPT !.neighbors = seeded.neighbors]

\* lines 357-360: the sentinel of a continuous fan goes last
WalkFinish(seeded, note_discontinuity) ==
    IF seeded.kind = "error" THEN seeded
    ELSE IF note_discontinuity /\ seeded.continuous
    THEN [seeded EXCEPT !.neighbors = Append(@, Sentinel(seeded.continuous))]
    ELSE seeded

\* the walks on a pool of keyed edges
WalkPool(edges, edge_0, note_discontinuity) ==
    WalkFinish(
        WalkSeed(
            WalkBackward(NoteDiscontinuity(WalkForward(edges), note_discontinuity),
                         IF Len(edges) = 0 THEN None ELSE edges[Len(edges)]),
            edge_0),
        note_discontinuity)

\* static vertex_neighbors(info, vertex, edge_0, note_discontinuity): the
\* outcome is the array returned (neighbors), with the edges left in the
\* pool and the value of continuous, or the error thrown
VertexNeighbors(info, vertex, edge_0, note_discontinuity) ==
    WalkPool(KeyedEdgesWith(info, vertex), edge_0, note_discontinuity)

(***************************************************************************)
(* The meshes the mesh specification draws its input from.                 *)
(***************************************************************************)
\* most faces of a generated mesh
MaxFaces == 2
\* number of vertices of a generated mesh
MaxVerts == 4

\* a packed MeshInfo with nverts vertices and the given faces (a sequence
\* of vertex-index sequences)
MeshOf(nverts, faceList, creased) ==
    [vertices |-> [x |-> [i \in 1..nverts |-> 0],
                   y |-> [i \in 1..nverts |-> 0],
                   z |-> [i \in 1..nverts |-> 0]],
     faces |-> [indicesOffset1 |-> [f \in 1..Len(faceList) |->
                                      Len(Flatten(SubSeq(faceList, 1, f)))],
                indices |-> Flatten(faceList)],
     edges |-> [creased |-> creased]]

\* Mesh.examples().cube
ExampleCube ==
    [vertices |-> [x |-> <<-1, 1, 1, -1, -1, 1, 1, -1>>,
                   y |-> <<-1, -1, 1, 1, -1, -1, 1, 1>>,
                   z |-> <<-1, -1, -1, -1, 1, 1, 1, 1>>],
     faces |-> [indicesOffset1 |-> <<4, 8, 12, 16, 20, 24>>,
                indices |-> <<0, 1, 2, 3,  4, 5, 6, 7,  0, 1, 5, 4,
                              3, 2, 6, 7,  1, 2, 6, 5,  0, 3, 7, 4>>],
     edges |-> [creased |->
                 {[sep |-> "-", a |-> e[1], b |-> e[2]] :
                    e \in {<<0, 1>>, <<1, 2>>, <<2, 3>>, <<3, 0>>,
                           <<4, 5>>, <<5, 6>>, <<6, 7>>, <<7, 4>>,
                           <<0, 4>>, <<1, 5>>, <<2, 6>>, <<3, 7>>}}]]

\* the triangles over the vertices 0..nverts-1, every rotation and winding
Triangles(nverts) ==
    {t \in [1..3 -> 0..(nverts - 1)] : t[1] # t[2] /\ t[2] # t[3] /\ t[1] # t[3]}

\* every mesh of 1..MaxFaces triangles over MaxVerts vertices
TriangleMeshes ==
    UNION {{MeshOf(MaxVerts, fl, {}) : fl \in [1..k -> Triangles(MaxVerts)]} :
           k \in 1..MaxFaces}

\* meshes beyond those bounds: the cube, a closed and an open fan of three
\* triangles around vertex 0, a quad fan, two closed fans and two open
\* fans that touch only at vertex 0, and an edge shared by three faces
ExampleMeshes ==
    {ExampleCube,
     MeshOf(4, <<<<0, 1, 2>>, <<0, 2, 3>>, <<0, 3, 1>>>>, {}),
     MeshOf(5, <<<<1, 2, 0>>, <<0, 2, 3>>, <<4, 0, 3>>>>, {}),
     MeshOf(6, <<<<0, 1, 2, 3>>, <<0, 3, 4, 5>>>>, {}),
     MeshOf(5, <<<<0, 1, 2>>, <<0, 2, 1>>, <<0, 3, 4>>, <<0, 4, 3>>>>, {}),
     MeshOf(5, <<<<0, 1, 2>>, <<0, 3, 4>>>>, {}),
     MeshOf(5, <<<<0, 1, 2>>, <<0, 1, 3>>, <<0, 1, 4>>>>, {})}

Meshes == TriangleMeshes \cup ExampleMeshes

NumVertices(info) == Len(info.vertices.x)

NumFaces(info) == Len(info.faces.indicesOffset1)

\* the face-edges of a mesh
FaceEdges(info) ==
    {[face |-> Face(info, f), edge |-> e] :
        <<f, e>> \in {h \in (0..(NumFaces(info) - 1)) \X (0..(Len(info.faces.indices) - 1)) :
                        h[2] < Face(info, h[1]).edges}}

(***************************************************************************)
(* The mesh specification: a mesh is drawn and queried.                    *)
(***************************************************************************)
InitMesh ==
    /\ mesh \in Meshes
    /\ nb = None
    /\ fa = None
    /\ ab = None
    /\ bc = None
    /\ cd = None
    /\ ac = None
    /\ chain = None
    /\ mq = None
    /\ fq = None
    /\ tri = None
    /\ sub = None
    /\ cf = None
    /\ tg = None
    /\ cl = None
    /\ sym = None
    /\ rep = None

\* mesh.vertex_neighbors(v, edge_0, note_discontinuity)
QueryVertexNeighbors(v, edge_0, note) ==
    /\ nb = None
    /\ fa = None
    /\ fq = None
    /\ tg = None
    /\ cl = None
    /\ nb' = [vertex |-> v, edge_0 |-> edge_0, note |-> note,
              result |-> VertexNeighbors(mesh, v, edge_0, note)]
    /\ UNCHANGED <<mesh, fa, ab, bc, cd, ac, chain, mq, fq, tri, sub, cf, tg, cl, sym, rep>>

\* mesh.face_adjacent(faceEdge)
QueryFaceAdjacent(faceEdge) ==
    /\ nb = None
    /\ fa = None
    /\ fq = None
    /\ tg = None
    /\ cl = None
    /\ fa' = [faceEdge |-> faceEdge, result |-> FaceAdjacent(mesh, faceEdge)]
    /\ UNCHANGED <<mesh, nb, ab, bc, cd, ac, chain, mq, fq, tri, sub, cf, tg, cl, sym, rep>>

\* mesh.face(index), also with the indices next to the range
QueryFace(index) ==
    /\ nb = None
    /\ fa = None
    /\ fq = None
    /\ tg = None
    /\ cl = None
    /\ fq' = [index |-> index, result |-> Face(mesh, index)]
    /\ UNCHANGED <<mesh, nb, fa, ab, bc, cd, ac, chain, mq, tri, sub, cf, tg, cl, sym, rep>>

(***************************************************************************)
(* geometry.ts: MeshGeometry.fromThreeGeometry, and mesh.ts: Mesh.clone.   *)
(***************************************************************************)
\* new Array(a) for an array a: the array of the one element a
NewArray(a) == <<a>>

\* new Uint32Array([.., undefined, ..]): undefined is stored as 0
ToUint32(x) == IF x = Undef THEN 0 ELSE x

\* array[i] of a JavaScript array or typed array: undefined outside of it
ElementAt(array, i) ==
    IF i >= 0 /\ i < Len(array) THEN array[i + 1] ELSE Undef

\* the faces pushed by the first loop, one for every i below indices.count
ThreeFaces(index) ==
    [k \in 1..Len(index) |->
        <<ElementAt(index, (k - 1) * 3 + 0),
          ElementAt(index, (k - 1) * 3 + 1),
          ElementAt(index, (k - 1) * 3 + 2)>>]

\* positions[i * 3 + axis] for every i below positions.length / 3
ThreePositions(position, axis) ==
    [k \in 1..(Len(position) \div 3) |-> ElementAt(position, (k - 1) * 3 + axis)]

\* faces_indices.set(face, offset1) raises a RangeError when the face does
\* not fit behind offset1 in the buffer of indices.count elements
ThreeSetThrows(index) ==
    \E k \in 1..Len(index) :
        Len(Flatten(SubSeq(ThreeFaces(index), 1, k))) > Len(index)

\* MeshGeometry.fromThreeGeometry(geometry): the mesh of the geometry, or
\* the error raised; getIndex() of a geometry without an index is null
FromThreeGeometry(geometry) ==
    IF geometry.index = None
    THEN [error |-> "TypeError", mesh |-> NoMesh]
    ELSE IF ThreeSetThrows(geometry.index)
    THEN [error |-> "RangeError", mesh |-> NoMesh]
    ELSE [error |-> "none",
          mesh |->
            [vertices |-> [x |-> ThreePositions(geometry.position, 0),
                           y |-> ThreePositions(geometry.position, 1),
                           z |-> ThreePositions(geometry.position, 2)],
             faces |-> [indicesOffset1 |->
                          [k \in 1..Len(geometry.index) |->
                             Len(Flatten(SubSeq(ThreeFaces(geometry.index), 1, k)))],
                        indices |->
                          [q \in 1..Len(geometry.index) |->
                             ToUint32(Flatten(ThreeFaces(geometry.index))[q])]],
             edges |-> [creased |-> {}]]]

\* the index buffers of the geometries handed over: none, an empty one, one
\* triangle in both windings and two triangles
ThreeIndices ==
    {None, <<>>, <<0, 1, 2>>, <<0, 2, 1>>, <<0, 1, 2, 0, 2, 3>>,
     <<0, 1, 2, 2, 1, 3>>}

\* the BufferGeometry inputs: 3 or 4 vertices whose position buffer holds
\* the floats 1, 2, 3, ..., with an index buffer that names vertices of it
ThreeGeometries ==
    {g \in [position : {[q \in 1..(3 * nverts) |-> q] : nverts \in 3..MaxVerts},
            index : ThreeIndices] :
        g.index # None =>
            \A q \in 1..Len(g.index) : g.index[q] < Len(g.position) \div 3}

\* new Float32Array(a) and new Uint32Array(a) of a packed buffer a: a copy
NewTypedArray(a) == a

\* mesh.cloneInfo({ modifiable })
CloneInfo(info, modifiable) ==
    IF modifiable
    THEN [vertices |-> [x |-> NewArray(info.vertices.x),
                        y |-> NewArray(info.vertices.y),
                        z |-> NewArray(info.vertices.z)],
          faces |-> [indicesOffset1 |-> NewArray(info.faces.indicesOffset1),
                     indices |-> NewArray(info.faces.indices)],
          edges |-> [creased |-> info.edges.creased]]
    ELSE [vertices |-> [x |-> NewTypedArray(info.vertices.x),
                        y |-> NewTypedArray(info.vertices.y),
                        z |-> NewTypedArray(info.vertices.z)],
          faces |-> [indicesOffset1 |-> NewTypedArray(info.faces.indicesOffset1),
                     indices |-> NewTypedArray(info.faces.indices)],
          edges |-> [creased |-> info.edges.creased]]

\* MeshGeometry.fromThreeGeometry(geometry)
IngestThreeGeometry(geometry) ==
    /\ nb = None
    /\ fa = None
    /\ fq = None
    /\ tg = None
    /\ cl = None
    /\ tg' = [geometry |-> geometry, result |-> FromThreeGeometry(geometry)]
    /\ UNCHANGED <<mesh, nb, fa, fq, ab, bc, cd, ac, chain, mq, tri, sub, cf, cl, sym, rep>>

\* mesh.clone({ modifiable })
Clone(modifiable) ==
    /\ nb = None
    /\ fa = None
    /\ fq = None
    /\ tg = None
    /\ cl = None
    /\ cl' = [modifiable |-> modifiable, info |-> CloneInfo(mesh, modifiable)]
    /\ UNCHANGED <<mesh, nb, fa, fq, ab, bc, cd, ac, chain, mq, tri, sub, cf, tg, sym, rep>>

NextMesh ==
    \/ \E v \in 0..(NumVertices(mesh) - 1) :
         \E edge_0 \in FaceEdges(mesh) \cup {None} :
           \E note \in BOOLEAN : QueryVertexNeighbors(v, edge_0, note)
    \/ \E faceEdge \in FaceEdges(mesh) : QueryFaceAdjacent(faceEdge)
    \/ \E index \in (-1)..NumFaces(mesh) : QueryFace(index)
    \/ \E geometry \in ThreeGeometries : IngestThreeGeometry(geometry)
    \/ \E modifiable \in BOOLEAN : Clone(modifiable)

SpecMesh == InitMesh /\ [][NextMesh]_vars

(***************************************************************************)
(* geometry.ts: ArrayGeometryMap over packed buffers whose transforms are  *)
(* kept as the floats themselves (16 per index).                           *)
(***************************************************************************)
\* the 16 floats of new Matrix4().identity().toArray()
IdentityFloats == <<1, 0, 0, 0,  0, 1, 0, 0,  0, 0, 1, 0,  0, 0, 0, 1>>

\* ArrayGeometryMap.fromBase / toBase of geometry.ts on one direction: the
\* indices of the key and, per index, the 16 floats of its block
GeometryArrayLookup(dir, index) ==
    LET offset0 == IF index = 0 THEN 0 ELSE Get(dir.offset1, index - 1)
        offset1 == Get(dir.offset1, index)
        indices == Subarray(dir.indices, offset0, offset1)
    IN  [indices |-> indices,
         transforms |-> [i \in 1..Len(indices) |->
                           IF offset0 = Undef
                           THEN Subarray(dir.transforms, 0, 0)
                           ELSE Subarray(dir.transforms, (i - 1 + offset0) * 16,
                                         (i - 1 + offset0) * 16 + 16)]]

GeometryArrayFromBase(m, index) == GeometryArrayLookup(m.base2self, index)

GeometryArrayToBase(m, index) == GeometryArrayLookup(m.self2base, index)

(***************************************************************************)
(* TriangulateGeometryFunction                                             *)
(***************************************************************************)
\* new Uint32Array(n) / new Float32Array(n) with n < 0
RangeError == [kind |-> "error", message |-> "RangeError: Invalid typed array length"]

\* passes that write a strip (v_k, v_k+1, v_k+2) instead of the fan
TriangleStrip(info) ==
    LET offsets == info.faces.indicesOffset1
        ofFace(i_base_face) ==
            LET offset0 == IF i_base_face = 0 THEN 0 ELSE offsets[i_base_face]
                indices_base_face ==
                    Subarray(info.faces.indices, offset0, offsets[i_base_face + 1])
            IN  [k \in 1..(Len(indices_base_face) - 2) |->
                   [face |-> i_base_face,
                    tri |-> k - 1,
                    v |-> <<Get(indices_base_face, k - 1),
                            Get(indices_base_face, k),
                            Get(indices_base_face, k + 1)>>]]
    IN  Flatten([f \in 1..Len(offsets) |-> ofFace(f - 1)])

\* the passes of the two loops of update in order: the base face, the
\* ordinal of the triangle in it and the three indices written for it
TriangleFan(info) ==
    LET offsets == info.faces.indicesOffset1
        ofFace(i_base_face) ==
            LET offset0 == IF i_base_face = 0 THEN 0 ELSE offsets[i_base_face]
                indices_base_face ==
                    Subarray(info.faces.indices, offset0, offsets[i_base_face + 1])
                n_tris_base_face == Len(indices_base_face) - 2
            IN  [k \in 1..n_tris_base_face |->
                   [face |-> i_base_face,
                    tri |-> k - 1,
                    v |-> <<Get(indices_base_face, 0),
                            Get(indices_base_face, k),
                            Get(indices_base_face, k + 1)>>]]
    IN  Flatten([f \in 1..Len(offsets) |-> ofFace(f - 1)])

\* the triangles written before base face i_base_face
TrianglesBeforeFace(fan, i_base_face) ==
    Cardinality({n \in 1..Len(fan) : fan[n].face < i_base_face})

\* the triangles written up to and including base face i_base_face
TrianglesThrough(fan, i_base_face) ==
    Cardinality({n \in 1..Len(fan) : fan[n].face <= i_base_face})

\* the floats update writes in the block of triangle n: 1 at 0, 5 and 10
TriangulateFloat(q, n_tris) ==
    IF q \div 16 < n_tris /\ (q % 16) \in {0, 5, 10} THEN 1 ELSE 0

\* TriangulateGeometryFunction.update(): the published mesh and face map.
\* A buffer of length len takes the writes below len and keeps 0 elsewhere
TriangulateUpdate(info) ==
    LET greatest_possible_tris ==
            Len(info.faces.indices) - Len(info.faces.indicesOffset1) - 1
        fan == TriangleFan(info)
        n_tris == Len(fan)
        tris_indices ==
            [p \in 1..(greatest_possible_tris * 3) |->
               IF (p - 1) \div 3 < n_tris
               THEN fan[((p - 1) \div 3) + 1].v[((p - 1) % 3) + 1] ELSE 0]
        tris_indicesOffset1 ==
            [p \in 1..greatest_possible_tris |-> IF p <= n_tris THEN p * 3 ELSE 0]
        counted == [p \in 1..greatest_possible_tris |-> IF p <= n_tris THEN p ELSE 0]
        numbered == [p \in 1..greatest_possible_tris |-> IF p <= n_tris THEN p - 1 ELSE 0]
        based == [p \in 1..greatest_possible_tris |->
                    IF p <= n_tris THEN fan[p].face ELSE 0]
        floats == [p \in 1..(greatest_possible_tris * 16) |->
                     TriangulateFloat(p - 1, n_tris)]
    IN  IF greatest_possible_tris < 0 THEN RangeError
        ELSE [kind |-> "ok",
              mesh |-> [vertices |-> info.vertices,
                        faces |-> [indicesOffset1 |->
                                      Subarray(tris_indicesOffset1, 0, n_tris),
                                   indices |-> Subarray(tris_indices, 0, n_tris * 3)],
                        edges |-> info.edges],
              face |-> [base2self |->
                           [offset1 |-> [f \in 1..Len(info.faces.indicesOffset1) |->
                                           TrianglesThrough(fan, f - 1)],
                            indices |-> Subarray(numbered, 0, n_tris),
                            transforms |-> Subarray(floats, 0, n_tris * 16)],
                        self2base |->
                           [offset1 |-> Subarray(counted, 0, n_tris),
                            indices |-> Subarray(based, 0, n_tris),
                            transforms |-> Subarray(floats, 0, n_tris * 16)]]]

\* base meshes with faces of more than four vertices, and one without faces
PolygonMeshes ==
    {MeshOf(5, <<<<0, 1, 2, 3, 4>>>>, {}),
     MeshOf(6, <<<<0, 1, 2, 3, 4>>, <<0, 4, 5>>>>, {}),
     MeshOf(6, <<<<0, 1, 2>>, <<0, 2, 3, 4, 5>>, <<5, 4, 3, 1>>>>, {}),
     MeshOf(6, <<<<0, 1, 2, 3, 4, 5>>, <<5, 4, 3, 2, 1, 0>>>>, {}),
     MeshOf(3, <<>>, {})}

\* the base meshes given to TriangulateGeometryFunction
TriangulateBases == Meshes \cup PolygonMeshes

(***************************************************************************)
(* The triangulate specification: a base mesh is triangulated, then the    *)
(* face map is queried.                                                    *)
(***************************************************************************)
InitTriangulate ==
    /\ mesh \in TriangulateBases
    /\ tri = None
    /\ mq = None
    /\ nb = None
    /\ fa = None
    /\ fq = None
    /\ sub = None
    /\ ab = None
    /\ bc = None
    /\ cd = None
    /\ ac = None
    /\ chain = None
    /\ cf = None
    /\ tg = None
    /\ cl = None
    /\ sym = None
    /\ rep = None

\* new TriangulateGeometryFunction(base): update()
TriangulateUpdated ==
    /\ tri = None
    /\ tri' = TriangulateUpdate(mesh)
    /\ UNCHANGED <<mesh, mq, nb, fa, fq, sub, ab, bc, cd, ac, chain, cf, tg, cl, sym, rep>>

\* geometry.map.face.fromBase(f)
TriangulateFromBase(f) ==
    /\ tri # None
    /\ tri.kind = "ok"
    /\ mq = None
    /\ mq' = [dir |-> "fromBase", index |-> f,
              result |-> GeometryArrayFromBase(tri.face, f)]
    /\ UNCHANGED <<mesh, tri, nb, fa, fq, sub, ab, bc, cd, ac, chain, cf, tg, cl, sym, rep>>

\* geometry.map.face.toBase(t)
TriangulateToBase(t) ==
    /\ tri # None
    /\ tri.kind = "ok"
    /\ mq = None
    /\ mq' = [dir |-> "toBase", index |-> t,
              result |-> GeometryArrayToBase(tri.face, t)]
    /\ UNCHANGED <<mesh, tri, nb, fa, fq, sub, ab, bc, cd, ac, chain, cf, tg, cl, sym, rep>>

\* the number of faces of the published mesh (0 before update)
PublishedTriangles ==
    IF tri # None /\ tri.kind = "ok" THEN NumFaces(tri.mesh) ELSE 0

NextTriangulate ==
    \/ TriangulateUpdated
    \/ \E f \in 0..(NumFaces(mesh) - 1) : TriangulateFromBase(f)
    \/ \E t \in 0..(PublishedTriangles - 1) : TriangulateToBase(t)

SpecTriangulate == InitTriangulate /\ [][NextTriangulate]_vars

(***************************************************************************)
(* SubdivisionSurfaceGeometry: adjacency, points and faces of one          *)
(* Catmull-Clark iteration.  Positions are not computed: a position of the *)
(* new mesh is the record of the step that wrote it.                       *)
(***************************************************************************)
\* boundaryAsCrease = true
BoundaryAsCrease == TRUE

\* the passes of the loops over faces and their vertices in order, with
\* v0, v1, vPrev and the keys edgeKey1(v0, v1) and edgeKey1(vPrev, v0)
Corners(info) ==
    LET ofFace(faceIdx) ==
            LET face == Face(info, faceIdx)
                n == Len(face.vertices)
            IN  [i \in 1..n |->
                   [face |-> faceIdx,
                    i |-> i - 1,
                    v0 |-> face.vertices[i],
                    key |-> EdgeKey1(face.vertices[i], face.vertices[(i % n) + 1]),
                    keyPrev |-> EdgeKey1(face.vertices[((i + n - 2) % n) + 1],
                                         face.vertices[i])]]
    IN  Flatten([f \in 1..NumFaces(info) |-> ofFace(f - 1)])

\* the keys of adjacency.edgeToFaces in insertion order
EdgeOrder(corners) ==
    LET firsts == SortedSeq({p \in 1..Len(corners) :
                               \A q \in 1..(p - 1) : corners[q].key # corners[p].key})
    IN  [k \in 1..Len(firsts) |-> corners[firsts[k]].key]

\* adjacency.edgeToFaces.get(key).length
EdgeFaceCount(corners, key) ==
    Cardinality({p \in 1..Len(corners) : corners[p].key = key})

\* adjacency.sharpEdges
SharpEdges(info, corners) ==
    {key \in Range(EdgeOrder(corners)) :
        \/ key \in info.edges.creased
        \/ BoundaryAsCrease /\ EdgeFaceCount(corners, key) = 1}

\* #getNeighboringEdges(vertexIndex, adjacency), as a set
NeighboringEdges(corners, vertexIndex) ==
    UNION {{corners[p].key, corners[p].keyPrev} :
              p \in {q \in 1..Len(corners) : corners[q].v0 = vertexIndex}}

\* k of step 3: the sharp edges among the neighboring edges
SharpCount(info, corners, vertexIndex) ==
    Cardinality(NeighboringEdges(corners, vertexIndex) \cap SharpEdges(info, corners))

\* step 3: the rule that writes newMesh.vertices[vIdx], "none" when the
\* vertex is skipped (no edge) or keeps its slot (corner, k > 2)
VertexRule(info, corners, vIdx) ==
    IF SharpCount(info, corners, vIdx) < 2
    THEN IF NeighboringEdges(corners, vIdx) = {} THEN "none" ELSE "smooth"
    ELSE IF SharpCount(info, corners, vIdx) = 2 THEN "crease" ELSE "none"

\* faceToPointIndex.get(faceIdx): addVertex returns the length of
\* newMesh.vertices.x before the push, and the clone starts from
\* new Array(vertices.x)
FacePointIndex(info, faceIdx) == Len(NewArray(info.vertices.x)) + faceIdx

\* the position of key in the insertion order (from 1)
EdgeOrdinal(order, key) == CHOOSE k \in 1..Len(order) : order[k] = key

\* edgeToPointIndex.get(key)
EdgePointIndex(info, order, key) ==
    Len(NewArray(info.vertices.x)) + NumFaces(info) + EdgeOrdinal(order, key) - 1

\* newMesh.vertices.x (and y, z) after steps 1 to 3: the cloned array with
\* the face points and edge points pushed and the slots of step 3 written;
\* a slot never assigned below a written one is a hole
NewVertices(info, corners) ==
    LET order == EdgeOrder(corners)
        start == Len(NewArray(info.vertices.x))
        pushed == start + NumFaces(info) + Len(order)
        written == {v \in 0..(NumVertices(info) - 1) :
                       VertexRule(info, corners, v) # "none"}
        length == IF written = {} THEN pushed
                  ELSE LET top == CHOOSE v \in written : \A w \in written : w <= v
                       IN  IF top + 1 > pushed THEN top + 1 ELSE pushed
    IN  [p \in 1..length |->
           IF (p - 1) \in written
           THEN [kind |-> VertexRule(info, corners, p - 1), vertex |-> p - 1]
           ELSE IF p <= start THEN [kind |-> "array"]
           ELSE IF p <= start + NumFaces(info)
           THEN [kind |-> "facePoint", face |-> p - 1 - start]
           ELSE IF p <= pushed
           THEN [kind |-> "edgePoint", edge |-> order[p - start - NumFaces(info)]]
           ELSE [kind |-> "hole"]]

\* step 4: the quad pushed for each corner, in order
NewFaces(info, corners) ==
    LET order == EdgeOrder(corners)
    IN  [n \in 1..Len(corners) |->
           <<corners[n].v0,
             EdgePointIndex(info, order, corners[n].key),
             FacePointIndex(info, corners[n].face),
             EdgePointIndex(info, order, corners[n].keyPrev)>>]

\* this.mesh = newMesh.accelerated(): the packed copy of newMesh
NewMesh(info) ==
    [vertices |-> [x |-> NewVertices(info, Corners(info)),
                   y |-> NewVertices(info, Corners(info)),
                   z |-> NewVertices(info, Corners(info))],
     faces |-> [indicesOffset1 |-> [n \in 1..Len(Corners(info)) |-> 4 * n],
                indices |-> Flatten(NewFaces(info, Corners(info)))],
     edges |-> [creased |-> info.edges.creased]]

(***************************************************************************)
(* SubdivisionSurfaceGeometry: the maps of an iteration and their          *)
(* composition with the maps accumulated so far.                           *)
(***************************************************************************)
\* the 16 floats of a matrix made by frameToMatrix or by a product of such
\* matrices: a float the model does not compute
Computed == 2

FrameFloats == [e \in 1..16 |-> Computed]

\* Matrix4.multiply on two blocks of floats
MultiplyFloats(a, b) ==
    IF a = IdentityFloats THEN b
    ELSE IF b = IdentityFloats THEN a ELSE FrameFloats

\* the floats of a sequence of 16-float blocks, block after block
Floats(blocks) ==
    [q \in 1..(16 * Len(blocks)) |-> blocks[((q - 1) \div 16) + 1][((q - 1) % 16) + 1]]

\* the packed form of a list of lists: the end offsets and the indices
Packed(lists) ==
    [offset1 |-> [b \in 1..Len(lists) |-> Len(Flatten(SubSeq(lists, 1, b)))],
     indices |-> Flatten(lists)]

\* ArrayGeometryMap.identity(n) of geometry.ts: offset1 has n + 1 elements
GeometryArrayIdentity(n) ==
    LET self2self ==
            [indices |-> [i \in 1..n |-> i - 1],
             offset1 |-> [i \in 1..(n + 1) |-> IF i <= n THEN i ELSE 0],
             transforms |-> Floats([i \in 1..n |-> IdentityFloats])]
    IN  [self2base |-> self2self, base2self |-> self2self]

\* the calls of addVertexMapping in order: the original vertices, the face
\* points, the edge points (with the endpoints read from the key)
VertexMappingCalls(info, corners) ==
    [v \in 1..NumVertices(info) |-> [self |-> v - 1, bases |-> <<v - 1>>]]
    \o [f \in 1..NumFaces(info) |->
          [self |-> FacePointIndex(info, f - 1),
           bases |-> Face(info, f - 1).vertices]]
    \o [e \in 1..Len(EdgeOrder(corners)) |->
          [self |-> EdgePointIndex(info, EdgeOrder(corners), EdgeOrder(corners)[e]),
           bases |-> <<EdgeOrder(corners)[e].a, EdgeOrder(corners)[e].b>>]]

\* v_base2self_lists[base]: the self indices pushed for base, in order
VertexBaseList(calls, base) ==
    Flatten([c \in 1..Len(calls) |->
               [k \in 1..Cardinality({q \in 1..Len(calls[c].bases) :
                                         calls[c].bases[q] = base})
                  |-> calls[c].self]])

\* the vertex map of the iteration, relative to the previous mesh
CurrentVertexMap(info, corners) ==
    LET calls == VertexMappingCalls(info, corners)
        lists == [b \in 1..NumVertices(info) |-> VertexBaseList(calls, b - 1)]
        s2b == Packed([c \in 1..Len(calls) |-> calls[c].bases])
        b2s == Packed(lists)
    IN  [self2base |->
            [offset1 |-> s2b.offset1,
             indices |-> s2b.indices,
             transforms |-> Floats([k \in 1..Len(s2b.indices) |-> IdentityFloats])],
         base2self |->
            [offset1 |-> b2s.offset1,
             indices |-> b2s.indices,
             transforms |->
                Floats(Flatten([b \in 1..Len(lists) |->
                   [k \in 1..Len(lists[b]) |->
                      IF lists[b][k] = b - 1 THEN FrameFloats
                      ELSE IdentityFloats]]))]]

\* the face map of the iteration: quad n comes from the face of corner n
CurrentFaceMap(info, corners) ==
    LET lists == [f \in 1..NumFaces(info) |->
                    [k \in 1..Face(info, f - 1).edges |->
                       Len(Flatten(SubSeq([g \in 1..NumFaces(info) |->
                                             Face(info, g - 1).vertices],
                                          1, f - 1))) + k - 1]]
        b2s == Packed(lists)
    IN  [self2base |->
            [offset1 |-> [n \in 1..Len(corners) |-> n],
             indices |-> [n \in 1..Len(corners) |-> corners[n].face],
             transforms |-> Floats([n \in 1..Len(corners) |-> FrameFloats])],
         base2self |->
            [offset1 |-> b2s.offset1,
             indices |-> b2s.indices,
             transforms |-> Floats([k \in 1..Len(b2s.indices) |-> IdentityFloats])]]

\* the positions of a key in a packed direction, in loop order; a loop
\* bounded by an undefined offset does not run
KeyPositions(offset1, key) ==
    LET o0 == IF key = 0 THEN 0 ELSE Get(offset1, key - 1)
        o1 == Get(offset1, key)
    IN  IF o0 = Undef \/ o1 = Undef THEN <<>> ELSE SortedSeq(o0..(o1 - 1))

\* the entries pushed in the innermost loop for position j of the outer
\* direction: the entries of the inner direction under the index at j
ComposedThrough(outer, inner, j, multiplyTransforms) ==
    LET ks == KeyPositions(inner.offset1, Get(outer.indices, j))
    IN  [m \in 1..Len(ks) |->
           [index |-> ToUint32(Get(inner.indices, ks[m])),
            block |-> IF multiplyTransforms
                      THEN MultiplyFloats(
                              Subarray(inner.transforms, ks[m] * 16, ks[m] * 16 + 16),
                              Subarray(outer.transforms, j * 16, j * 16 + 16))
                      ELSE IdentityFloats]]

\* the entries #composeArrayGeometryMap pushes for one key of the outer
\* direction: for each of its entries, the entries of the inner direction
ComposedEntries(outer, inner, key, multiplyTransforms) ==
    LET js == KeyPositions(outer.offset1, key)
    IN  Flatten([p \in 1..Len(js) |->
                   ComposedThrough(outer, inner, js[p], multiplyTransforms)])

\* the entries pushed for the keys of the outer direction, key by key
ComposedRows(outer, inner, multiplyTransforms) ==
    [r \in 1..Len(outer.offset1) |->
       ComposedEntries(outer, inner, r - 1, multiplyTransforms)]

\* the packed direction of the rows pushed
PackedRows(rows, entries) ==
    [offset1 |-> [q \in 1..Len(rows) |-> Len(Flatten(SubSeq(rows, 1, q)))],
     indices |-> [q \in 1..Len(entries) |-> entries[q].index],
     transforms |-> Floats([q \in 1..Len(entries) |-> entries[q].block])]

\* one direction of the composed map
ComposedDirection(outer, inner, multiplyTransforms) ==
    PackedRows(ComposedRows(outer, inner, multiplyTransforms),
               Flatten(ComposedRows(outer, inner, multiplyTransforms)))

\* #composeArrayGeometryMap(prev, curr, multiplyTransforms)
ComposeArrayGeometryMap(prev, curr, multiplyTransforms) ==
    [self2base |-> ComposedDirection(curr.self2base, prev.self2base, multiplyTransforms),
     base2self |-> ComposedDirection(prev.base2self, curr.base2self, multiplyTransforms)]

\* computeVertexFrame(v, m) throws what m.vertex_neighbors(v) throws
VertexFrameThrows(info, v) == VertexNeighbors(info, v, None, FALSE).kind = "error"

\* finalising the vertex map computes, for every base vertex, its frame in
\* the previous mesh and in the new mesh
FinalizeThrows(info) ==
    \E v \in 0..(NumVertices(info) - 1) :
        VertexFrameThrows(info, v) \/ VertexFrameThrows(NewMesh(info), v)

\* #subdivide_catmullClark() on the geometry's fields: this.mesh is assigned
\* before the maps are finalised, this.map after
SubdivideCatmullClark(geometry) ==
    IF FinalizeThrows(geometry.mesh)
    THEN [geometry EXCEPT !.mesh = NewMesh(geometry.mesh), !.error = "not found"]
    ELSE [geometry EXCEPT
            !.mesh = NewMesh(geometry.mesh),
            !.level = @ + 1,
            !.map = [vertex |-> ComposeArrayGeometryMap(
                                   geometry.map.vertex,
                                   CurrentVertexMap(geometry.mesh, Corners(geometry.mesh)),
                                   FALSE),
                     face |-> ComposeArrayGeometryMap(
                                 geometry.map.face,
                                 CurrentFaceMap(geometry.mesh, Corners(geometry.mesh)),
                                 TRUE)]]

RECURSIVE SubdivideTimes(_, _)
\* the loop of update(): it ends when an iteration throws
SubdivideTimes(geometry, iterations) ==
    IF iterations <= 0 \/ geometry.error # "none" THEN geometry
    ELSE SubdivideTimes(SubdivideCatmullClark(geometry), iterations - 1)

\* SubdivisionSurfaceGeometry.update() with this.iterations = iterations
SubdivisionUpdate(base, iterations) ==
    SubdivideTimes(
        [base |-> base,
         iterations |-> iterations,
         level |-> 0,
         error |-> "none",
         mesh |-> base,
         map |-> [vertex |-> GeometryArrayIdentity(NumVertices(base)),
                  face |-> GeometryArrayIdentity(NumFaces(base))]],
        iterations)

\* update() with this.method set to a value that is no SubdivisionMethod:
\* the first pass of the loop throws, after this.mesh and this.map are set
SubdivisionUpdateUnknownMethod(base, iterations) ==
    [base |-> base,
     iterations |-> iterations,
     level |-> 0,
     error |-> IF iterations > 0 THEN "unknown subdivision method" ELSE "none",
     mesh |-> base,
     map |-> [vertex |-> GeometryArrayIdentity(NumVertices(base)),
              face |-> GeometryArrayIdentity(NumFaces(base))]]

(***************************************************************************)
(* The subdivision specification: a base mesh is subdivided by update(),   *)
(* then the vertex map and the face map are queried.                       *)
(***************************************************************************)
\* the greatest value of this.iterations
MaxIterations == 2

\* the cube with its twelve edges creased under the keys of edgeKey1
CreasedCube ==
    [ExampleCube EXCEPT
        !.edges.creased = {EdgeKey1(k.a, k.b) : k \in ExampleCube.edges.creased}]

\* the base meshes given to SubdivisionSurfaceGeometry
SubdivisionBases ==
    ExampleMeshes \cup PolygonMeshes
    \cup {CreasedCube,
          MeshOf(3, <<<<0, 1, 2>>>>, {}),
          MeshOf(4, <<<<0, 1, 2, 3>>>>, {}),
          MeshOf(4, <<<<0, 1, 2>>, <<2, 1, 3>>>>, {EdgeKey1(1, 2)}),
          MeshOf(4, <<<<0, 1, 2>>, <<0, 2, 3>>, <<0, 3, 1>>, <<3, 2, 1>>>>, {}),
          MeshOf(10, <<<<7, 8, 9>>>>, {}),
          MeshOf(4, <<<<0, 3, 2>>>>, {})}

InitSubdivide ==
    /\ mesh \in SubdivisionBases
    /\ sub = None
    /\ mq = None
    /\ tri = None
    /\ nb = None
    /\ fa = None
    /\ fq = None
    /\ ab = None
    /\ bc = None
    /\ cd = None
    /\ ac = None
    /\ chain = None
    /\ cf = None
    /\ tg = None
    /\ cl = None
    /\ sym = None
    /\ rep = None

\* new SubdivisionSurfaceGeometry(base) with iterations set, then update()
SubdivisionUpdated(iterations) ==
    /\ sub = None
    /\ sub' = SubdivisionUpdate(mesh, iterations)
    /\ UNCHANGED <<mesh, mq, tri, nb, fa, fq, ab, bc, cd, ac, chain, cf, tg, cl, sym, rep>>

\* update() of a geometry whose method is not a SubdivisionMethod
SubdivisionUpdatedUnknownMethod(iterations) ==
    /\ sub = None
    /\ sub' = SubdivisionUpdateUnknownMethod(mesh, iterations)
    /\ UNCHANGED <<mesh, mq, tri, nb, fa, fq, ab, bc, cd, ac, chain, cf, tg, cl, sym, rep>>

\* geometry.map.vertex.fromBase(index)
SubdivisionVertexFromBase(index) ==
    /\ sub # None
    /\ mq = None
    /\ mq' = [map |-> "vertex", dir |-> "fromBase", index |-> index,
              result |-> GeometryArrayFromBase(sub.map.vertex, index)]
    /\ UNCHANGED <<mesh, sub, tri, nb, fa, fq, ab, bc, cd, ac, chain, cf, tg, cl, sym, rep>>

\* geometry.map.vertex.toBase(index)
SubdivisionVertexToBase(index) ==
    /\ sub # None
    /\ mq = None
    /\ mq' = [map |-> "vertex", dir |-> "toBase", index |-> index,
              result |-> GeometryArrayToBase(sub.map.vertex, index)]
    /\ UNCHANGED <<mesh, sub, tri, nb, fa, fq, ab, bc, cd, ac, chain, cf, tg, cl, sym, rep>>

\* geometry.map.face.fromBase(index)
SubdivisionFaceFromBase(index) ==
    /\ sub # None
    /\ mq = None
    /\ mq' = [map |-> "face", dir |-> "fromBase", index |-> index,
              result |-> GeometryArrayFromBase(sub.map.face, index)]
    /\ UNCHANGED <<mesh, sub, tri, nb, fa, fq, ab, bc, cd, ac, chain, cf, tg, cl, sym, rep>>

\* geometry.map.face.toBase(index)
SubdivisionFaceToBase(index) ==
    /\ sub # None
    /\ mq = None
    /\ mq' = [map |-> "face", dir |-> "toBase", index |-> index,
              result |-> GeometryArrayToBase(sub.map.face, index)]
    /\ UNCHANGED <<mesh, sub, tri, nb, fa, fq, ab, bc, cd, ac, chain, cf, tg, cl, sym, rep>>

\* the number of vertices and of faces of the published mesh (0 before
\* update)
PublishedVertices == IF sub # None THEN NumVertices(sub.mesh) ELSE 0

PublishedFaces == IF sub # None THEN NumFaces(sub.mesh) ELSE 0

\* the number of keys of the self side of the published vertex map
MappedVertices == IF sub # None THEN Len(sub.map.vertex.self2base.offset1) ELSE 0

NextSubdivide ==
    \/ \E iterations \in 1..MaxIterations : SubdivisionUpdated(iterations)
    \/ \E iterations \in 1..MaxIterations : SubdivisionUpdatedUnknownMethod(iterations)
    \/ \E index \in 0..NumVertices(mesh) : SubdivisionVertexFromBase(index)
    \/ \E index \in 0..(PublishedVertices + MappedVertices) :
          SubdivisionVertexToBase(index)
    \/ \E index \in 0..NumFaces(mesh) : SubdivisionFaceFromBase(index)
    \/ \E index \in 0..PublishedFaces : SubdivisionFaceToBase(index)

SpecSubdivide == InitSubdivide /\ [][NextSubdivide]_vars

(***************************************************************************)
(* Claims about the mappings (checked under SpecMap).                      *)
(***************************************************************************)
\* the index set a mapping query returned
IndexSet(mapping) == Range(mapping.indices)

\* the union of m2's answers over the indices of a first answer
Through(first, m2, dir) ==
    UNION {IndexSet(IF dir = "fromBase" THEN FromBase(m2, y) ELSE ToBase(m2, y)) :
              y \in IndexSet(first)}

\* m1 and m2 answer every fromBase and toBase query of m2's range with the
\* same index set
IndexEqual(m1, m2) ==
    /\ \A x \in 0..(Lengths(m2).base - 1) :
          IndexSet(FromBase(m1, x)) = IndexSet(FromBase(m2, x))
    /\ \A z \in 0..(Lengths(m2).self - 1) :
          IndexSet(ToBase(m1, z)) = IndexSet(ToBase(m2, z))

\* C1: for every compiled pair with matching sizes and every base index x,
\* the index set of compile(A, B).fromBase(x) is the union of
\* B.fromBase(y) over the y of A.fromBase(x)
C1_CompileFromBaseIsUnion ==
    ac.kind = "array" =>
        \A x \in 0..(Lengths(ab).base - 1) :
            IndexSet(FromBase(ac, x)) = Through(FromBase(ab, x), bc, "fromBase")

\* C2: for every compiled pair with matching sizes and every self index z,
\* the index set of compile(A, B).toBase(z) is the union of A.toBase(y)
\* over the y of B.toBase(z)
C2_CompileToBaseIsUnion ==
    ac.kind = "array" =>
        \A z \in 0..(Lengths(bc).self - 1) :
            IndexSet(ToBase(ac, z)) = Through(ToBase(bc, z), ab, "toBase")

\* C3: on an identity or symmetric map every query returns exactly one
\* index and the round trip through the opposite direction gives back the
\* singleton of the queried index
C3_RoundTrip ==
    (mq # None /\ ab.kind \in {"identity", "symmetric"}) =>
        /\ Len(mq.result.indices) = 1
        /\ Through(mq.result, ab,
                   IF mq.dir = "fromBase" THEN "toBase" ELSE "fromBase")
              = {mq.index}

\* C4: compiling two symmetric maps built from permutations p and q of the
\* same size gives the permutation i -> q[p[i]]
C4_SymmetricCompileIsComposition ==
    (ac.kind = "array" /\ ab.kind = "symmetric" /\ bc.kind = "symmetric") =>
        \A i \in 0..(Lengths(ab).base - 1) :
            IndexSet(FromBase(ac, i)) =
                {bc.base2self.index[ab.base2self.index[i + 1] + 1]}

\* C5: compiling a map with the identity of matching size, on either side,
\* gives a map index-equal to the original
C5_CompileIdentityLaw ==
    /\ (ac.kind = "array" /\ bc.kind = "identity") => IndexEqual(ac, ab)
    /\ (ac.kind = "array" /\ ab.kind = "identity") => IndexEqual(ac, bc)

\* C6: both bracketings of a compiled chain of three maps with matching
\* sizes answer fromBase with the same index set
C6_CompileAssociative ==
    (chain # None /\ chain.left.kind = "array" /\ chain.right.kind = "array") =>
        \A x \in 0..(Lengths(ab).base - 1) :
            IndexSet(FromBase(chain.left, x)) = IndexSet(FromBase(chain.right, x))

(***************************************************************************)
(* Claims about the mesh queries (checked under SpecMesh).                 *)
(***************************************************************************)
\* the two endpoints of a face-edge, as a set
UEdge(faceEdge) ==
    {Get(faceEdge.face.vertices, faceEdge.edge),
     Get(faceEdge.face.vertices, (faceEdge.edge + 1) % faceEdge.face.edges)}

\* the undirected edges of the mesh that touch the vertex
EdgesAt(info, vertex) ==
    {UEdge(fe) : fe \in {g \in FaceEdges(info) : vertex \in UEdge(g)}}

\* the faces that have the undirected edge
FacesWithEdge(info, E) ==
    {fe.face.index : fe \in {g \in FaceEdges(info) : UEdge(g) = E}}

\* the faces that contain the vertex
IncidentFaces(info, vertex) ==
    {f \in 0..(NumFaces(info) - 1) : vertex \in Range(Face(info, f).vertices)}

\* the vertex occurs once in each face that contains it
OccursOnce(info, vertex) ==
    \A f \in IncidentFaces(info, vertex) :
        Cardinality({k \in 1..Face(info, f).edges :
                        Face(info, f).vertices[k] = vertex}) = 1

\* the number of edges incident to the vertex
Valence(info, vertex) == Cardinality(EdgesAt(info, vertex))

\* every edge at the vertex is shared by exactly two faces
ClosedAt(info, vertex) ==
    /\ OccursOnce(info, vertex)
    /\ \A E \in EdgesAt(info, vertex) : Cardinality(FacesWithEdge(info, E)) = 2

\* some edge at the vertex belongs to one face only
BoundaryAt(info, vertex) ==
    \E E \in EdgesAt(info, vertex) : Cardinality(FacesWithEdge(info, E)) = 1

RECURSIVE FanReach(_, _, _)
\* the faces reached from the faces S across edges at the vertex
FanReach(info, vertex, S) ==
    LET T == S \cup {g \in IncidentFaces(info, vertex) :
                       \E E \in EdgesAt(info, vertex) :
                          /\ g \in FacesWithEdge(info, E)
                          /\ FacesWithEdge(info, E) \cap S # {}}
    IN  IF T = S THEN S ELSE FanReach(info, vertex, T)

\* the faces at the vertex form one fan: each is reached from each other
\* across edges at the vertex
SingleFanAt(info, vertex) ==
    \A f \in IncidentFaces(info, vertex) :
        FanReach(info, vertex, {f}) = IncidentFaces(info, vertex)

\* the faces of the neighbors of a returned sequence
NeighborFaces(ns) ==
    {ns[k].face.index : k \in {j \in 1..Len(ns) : ns[j].kind = "neighbor"}}

\* an unseeded query without the sentinel, on a vertex whose edges are all
\* shared by exactly two faces
ClosedFanQuery ==
    /\ nb # None
    /\ nb.edge_0 = None
    /\ ~nb.note
    /\ ClosedAt(mesh, nb.vertex)

\* the returned sequence is a closed cycle of valence(v) neighbors, one per
\* incident face
ClosedFanReturned ==
    LET ns == nb.result.neighbors
        n == Len(ns)
    IN  /\ nb.result.kind = "ok"
        /\ n = Valence(mesh, nb.vertex)
        /\ n = Cardinality(IncidentFaces(mesh, nb.vertex))
        /\ \A k \in 1..n : ns[k].kind = "neighbor"
        /\ NeighborFaces(ns) = IncidentFaces(mesh, nb.vertex)
        /\ \A k \in 1..(n - 1) :
              UEdge(ns[k].edges[2].faceEdge) = UEdge(ns[k + 1].edges[1].faceEdge)
        /\ n > 0 => UEdge(ns[n].edges[2].faceEdge) = UEdge(ns[1].edges[1].faceEdge)

\* C7: for every vertex whose incident edges are each shared by exactly two
\* faces (the vertex occurring once per face), vertex_neighbors(v) returns
\* valence(v) neighbors, one per incident face, consecutive neighbors share
\* an undirected edge and the last closes to the first
C7_ClosedFan == ClosedFanQuery => ClosedFanReturned

\* C7 (amended): the same, for the vertices whose incident faces form a
\* single fan
C7_ClosedSingleFan ==
    (ClosedFanQuery /\ SingleFanAt(mesh, nb.vertex)) => ClosedFanReturned

\* C7 (case): a closed single fan of at least three faces was queried
C7_ClosedFanQueried ==
    /\ ClosedFanQuery
    /\ SingleFanAt(mesh, nb.vertex)
    /\ Cardinality(IncidentFaces(mesh, nb.vertex)) >= 3
    /\ Len(nb.result.neighbors) >= 3

\* a query with the sentinel and without a seed, on a vertex with an edge
\* that belongs to one face only
BoundaryFanQuery ==
    /\ nb # None
    /\ nb.edge_0 = None
    /\ nb.note
    /\ OccursOnce(mesh, nb.vertex)
    /\ BoundaryAt(mesh, nb.vertex)

\* C8: for every boundary vertex, vertex_neighbors(v, undefined, true)
\* returns a sequence that contains the sentinel false, never true, placed
\* between the neighbors of the forward walk and those of the backward walk
C8_BoundaryFan ==
    BoundaryFanQuery =>
        LET ns == nb.result.neighbors
            fwd == Range(WalkForward(KeyedEdgesWith(mesh, nb.vertex)).neighbors)
        IN  /\ nb.result.kind = "ok"
            /\ \A k \in 1..Len(ns) : ns[k] # Sentinel(TRUE)
            /\ \E k \in 1..Len(ns) :
                  /\ ns[k] = Sentinel(FALSE)
                  /\ {Range(SubSeq(ns, 1, k - 1)), Range(SubSeq(ns, k + 1, Len(ns)))}
                        = {fwd, (Range(ns) \ fwd) \ {ns[k]}}

\* a seeded query without the sentinel
SeededQuery ==
    /\ nb # None
    /\ nb.edge_0 # None
    /\ ~nb.note

\* the sequence the same query returns without the seed
Unseeded == VertexNeighbors(mesh, nb.vertex, None, FALSE)

\* some neighbor of the unseeded sequence has the face and one of the
\* edges of the seed
SeedMatches ==
    /\ Unseeded.kind = "ok"
    /\ \E k \in 1..Len(Unseeded.neighbors) :
          /\ Unseeded.neighbors[k].face.index = nb.edge_0.face.index
          /\ nb.edge_0.edge \in {Unseeded.neighbors[k].edges[1].faceEdge.edge,
                                 Unseeded.neighbors[k].edges[2].faceEdge.edge}

\* the returned sequence starts at the seed and has the faces of the
\* unseeded one
SeededReturned ==
    LET ns == nb.result.neighbors
    IN  /\ nb.result.kind = "ok"
        /\ Len(ns) > 0
        /\ ns[1].kind = "neighbor"
        /\ ns[1].face.index = nb.edge_0.face.index
        /\ ns[1].edges[1].faceEdge.edge = nb.edge_0.edge
        /\ Unseeded.kind = "ok"
        /\ NeighborFaces(ns) = NeighborFaces(Unseeded.neighbors)

\* C9: for every vertex and every seed face-edge incident to it,
\* vertex_neighbors(v, edge_0) returns a sequence that starts with the
\* neighbor of the seed's face, the seed's ordinal first, over the faces of
\* the unseeded result; when no neighbor matches the seed the call fails
C9_SeededFan ==
    SeededQuery =>
        /\ (OccursOnce(mesh, nb.vertex) /\ nb.vertex \in UEdge(nb.edge_0))
              => SeededReturned
        /\ ~SeedMatches => nb.result.kind = "error"

\* the face-edges of the other faces with the endpoints of the queried one
OtherFaceEdges ==
    {g \in FaceEdges(mesh) :
        /\ g.face.index # fa.faceEdge.face.index
        /\ UEdge(g) = UEdge(fa.faceEdge)}

\* the tag of face-edge g against the direction of the queried face-edge
TagOf(g) ==
    IF Get(g.face.vertices, g.edge) = Get(fa.faceEdge.face.vertices, fa.faceEdge.edge)
    THEN "v01" ELSE "v10"

\* the answers of the example cube on face 0, by edge ordinal
CubeFace0Adjacent == <<<<2, 0>>, <<4, 0>>, <<3, 0>>, <<5, 0>>>>

\* C10: face_adjacent returns the face-edge of the lowest-indexed other
\* face, at its lowest ordinal, with the endpoints of the queried one and
\* the tag of its direction, and none exactly when no other face has the
\* edge; on the cube the edges of face 0 give (2,0), (4,0), (3,0), (5,0)
C10_FaceAdjacent ==
    fa # None =>
        /\ (fa.result.kind = "undefined") <=> (OtherFaceEdges = {})
        /\ fa.result.kind = "found" =>
              /\ fa.result.faceEdge \in OtherFaceEdges
              /\ \A g \in OtherFaceEdges :
                    \/ fa.result.faceEdge.face.index < g.face.index
                    \/ /\ fa.result.faceEdge.face.index = g.face.index
                       /\ fa.result.faceEdge.edge <= g.edge
              /\ fa.result.order = TagOf(fa.result.faceEdge)
        /\ (mesh = ExampleCube /\ fa.faceEdge.face.index = 0) =>
              /\ fa.result.kind = "found"
              /\ <<fa.result.faceEdge.face.index, fa.result.faceEdge.edge>>
                    = CubeFace0Adjacent[fa.faceEdge.edge + 1]

\* C10 (case): a query answered by a face that is not the only other face
\* with the edge, and a query answered with none
C10_FaceAdjacentQueried ==
    /\ fa # None
    /\ fa.result.kind = "found"
    /\ Cardinality({g.face.index : g \in OtherFaceEdges}) >= 2

\* no edge of the mesh belongs to more than two faces
EdgesAtMostTwoFaces(info) ==
    \A g \in FaceEdges(info) : Cardinality(FacesWithEdge(info, UEdge(g))) <= 2

\* the answer of face_adjacent to the face-edge it returned
AdjacentBack == FaceAdjacent(mesh, fa.result.faceEdge)

\* the second call returns the face and the edge of the first
AdjacentBackReturns ==
    /\ AdjacentBack.kind = "found"
    /\ AdjacentBack.faceEdge.face.index = fa.faceEdge.face.index
    /\ AdjacentBack.faceEdge.edge = fa.faceEdge.edge

\* C11: in a mesh whose interior edges are each shared by exactly two
\* faces, face_adjacent of the face-edge returned for an interior face-edge
\* (f, e) returns f and e with the opposite tag; a boundary face-edge has
\* no adjacent face-edge
C11_AdjacencySymmetry ==
    (fa # None /\ EdgesAtMostTwoFaces(mesh)) =>
        /\ fa.result.kind = "found" =>
              /\ AdjacentBackReturns
              /\ AdjacentBack.order # fa.result.order
        /\ OtherFaceEdges = {} => fa.result.kind = "undefined"

\* C11 (amended): the same, with the second call returning the tag of the
\* first: the tag compares the directions of the two face-edges
C11_AdjacencySymmetrySameTag ==
    (fa # None /\ EdgesAtMostTwoFaces(mesh)) =>
        /\ fa.result.kind = "found" =>
              /\ AdjacentBackReturns
              /\ AdjacentBack.order = fa.result.order
        /\ OtherFaceEdges = {} => fa.result.kind = "undefined"

\* C11 (case): an interior face-edge of a higher face was queried in a mesh
\* whose edges have at most two faces, and answered with the tag v10
C11_InteriorQueried ==
    /\ fa # None
    /\ EdgesAtMostTwoFaces(mesh)
    /\ fa.result.kind = "found"
    /\ fa.result.order = "v10"
    /\ fa.result.faceEdge.face.index < fa.faceEdge.face.index

\* C12: face(f) of a face index in range has index f, the degree
\* indicesOffset1[f] - indicesOffset1[f-1] (0 before the first face) and
\* the vertices of that slice of indices in order (cube: face(0) has
\* degree 4 and vertices 0,1,2,3); out of the range the call fails
C12_FaceView ==
    fq # None =>
        LET off == mesh.faces.indicesOffset1
            f == fq.index
            prev == IF f = 0 THEN 0 ELSE off[f]
        IN  /\ (f < 0 \/ f >= Len(off)) => fq.result = FaceOutOfBounds
            /\ (f >= 0 /\ f < Len(off)) =>
                  /\ fq.result.index = f
                  /\ fq.result.edges = off[f + 1] - prev
                  /\ fq.result.vertices =
                        [k \in 1..(off[f + 1] - prev) |-> mesh.faces.indices[prev + k]]
            /\ (mesh = ExampleCube /\ f = 0) =>
                  /\ fq.result.edges = 4
                  /\ fq.result.vertices = <<0, 1, 2, 3>>

\* C12 (case): a face after the first was viewed
C12_FaceViewed ==
    /\ fq # None
    /\ fq.index > 0
    /\ fq.index < NumFaces(mesh)
    /\ fq.result.edges >= 3

(***************************************************************************)
(* Claims about TriangulateGeometryFunction (checked under                 *)
(* SpecTriangulate).                                                       *)
(***************************************************************************)
RECURSIVE FanTrianglesBefore(_, _)
\* the sum of (degree - 2) over the faces before face f
FanTrianglesBefore(info, f) ==
    IF f = 0 THEN 0
    ELSE FanTrianglesBefore(info, f - 1) + (Face(info, f - 1).edges - 2)

\* the base face whose run of triangles holds triangle t
OriginFace(info, t) ==
    CHOOSE f \in 0..(NumFaces(info) - 1) :
        /\ FanTrianglesBefore(info, f) <= t
        /\ t < FanTrianglesBefore(info, f + 1)

\* a base mesh with at least one face was triangulated
Triangulated ==
    /\ tri # None
    /\ NumFaces(mesh) >= 1

\* C13: the published mesh has the vertices of the base and the sum of
\* (d_i - 2) faces, all triangles, the k-th of base face f being
\* (v0, v_k+1, v_k+2); the allocation bound |indices| - F - 1 is at least
\* that count (cube: 8 vertices and 12 faces)
C13_TriangulationCount ==
    Triangulated =>
        /\ tri.kind = "ok"
        /\ tri.mesh.vertices = mesh.vertices
        /\ NumFaces(tri.mesh) = FanTrianglesBefore(mesh, NumFaces(mesh))
        /\ \A t \in 0..(NumFaces(tri.mesh) - 1) : Face(tri.mesh, t).edges = 3
        /\ \A f \in 0..(NumFaces(mesh) - 1) :
              \A k \in 0..(Face(mesh, f).edges - 3) :
                 Face(tri.mesh, FanTrianglesBefore(mesh, f) + k).vertices =
                    <<Face(mesh, f).vertices[1],
                      Face(mesh, f).vertices[k + 2],
                      Face(mesh, f).vertices[k + 3]>>
        /\ Len(mesh.faces.indices) - NumFaces(mesh) - 1
              >= FanTrianglesBefore(mesh, NumFaces(mesh))
        /\ mesh = ExampleCube =>
              (NumVertices(tri.mesh) = 8 /\ NumFaces(tri.mesh) = 12)

\* C13 (case): a base with a face of five or more vertices, after another
\* face, was triangulated
C13_PolygonTriangulated ==
    /\ Triangulated
    /\ tri.kind = "ok"
    /\ \E f \in 1..(NumFaces(mesh) - 1) : Face(mesh, f).edges >= 5
    /\ NumFaces(tri.mesh) > NumFaces(mesh)

\* C14: fromBase(f) of the face map is the contiguous run of the d_f - 2
\* triangles of f, the runs following each other in face order; toBase(t)
\* is the one base face of t; t is in fromBase(f) exactly when toBase(t)
\* is f
C14_TriangulationFaceMap ==
    (Triangulated /\ tri.kind = "ok" /\ mq # None) =>
        /\ mq.dir = "fromBase" =>
              mq.result.indices =
                 [k \in 1..(Face(mesh, mq.index).edges - 2) |->
                    FanTrianglesBefore(mesh, mq.index) + k - 1]
        /\ mq.dir = "toBase" =>
              mq.result.indices = <<OriginFace(mesh, mq.index)>>
        /\ \A f \in 0..(NumFaces(mesh) - 1) :
              \A t \in 0..(NumFaces(tri.mesh) - 1) :
                 (t \in Range(GeometryArrayFromBase(tri.face, f).indices))
                    <=> (GeometryArrayToBase(tri.face, t).indices = <<f>>)

\* C14 (case): the run of a face after the first, of two or more triangles,
\* was asked for
C14_RunQueried ==
    /\ Triangulated
    /\ tri.kind = "ok"
    /\ mq # None
    /\ mq.dir = "fromBase"
    /\ mq.index > 0
    /\ Len(mq.result.indices) >= 2

\* the 16-float blocks of a transforms buffer
Blocks(transforms) ==
    {Subarray(transforms, 16 * n, 16 * n + 16) : n \in 0..((Len(transforms) \div 16) - 1)}

\* C15: every transform of the face map, in both directions, is the
\* identity matrix: 1 at elements 0, 5, 10 and 15 and 0 elsewhere
C15_TriangulationTransformsIdentity ==
    (Triangulated /\ tri.kind = "ok") =>
        /\ Blocks(tri.face.base2self.transforms) \subseteq {IdentityFloats}
        /\ Blocks(tri.face.self2base.transforms) \subseteq {IdentityFloats}

(***************************************************************************)
(* Claims about SubdivisionSurfaceGeometry (checked under SpecSubdivide).  *)
(***************************************************************************)
\* update() has returned or thrown
Subdivided == sub # None

\* update() with iterations = 1 has returned
SubdividedOnce == Subdivided /\ sub.iterations = 1 /\ sub.error = "none"

\* the distinct undirected edges of the faces of a mesh
UndirectedEdges(info) ==
    UNION {{{Face(info, f).vertices[i],
             Face(info, f).vertices[(i % Face(info, f).edges) + 1]} :
               i \in 1..Face(info, f).edges} :
           f \in 0..(NumFaces(info) - 1)}

\* C16: with iterations = 1 the published mesh has V + E + F vertices and
\* as many faces as the base faces have corners, each of degree 4 (on the
\* cube 26 vertices and 24 faces)
C16_SubdivisionCounts ==
    SubdividedOnce =>
        /\ NumVertices(sub.mesh) =
              NumVertices(mesh) + Cardinality(UndirectedEdges(mesh)) + NumFaces(mesh)
        /\ NumFaces(sub.mesh) = Len(mesh.faces.indices)
        /\ \A q \in 0..(NumFaces(sub.mesh) - 1) : Face(sub.mesh, q).edges = 4
        /\ mesh = ExampleCube =>
              NumVertices(sub.mesh) = 26 /\ NumFaces(sub.mesh) = 24

\* the index in the published mesh of the quad of corner i of base face f
QuadIndex(info, f, i) == Face(info, f).indicesOffset[1] + i

\* C17: after one iteration the quad of corner i of face f is (v_i,
\* edgePoint(v_i, v_i+1), facePoint(f), edgePoint(v_i-1, v_i)); face points
\* and edge points have indices distinct from each other and from the
\* original vertices, so a quad has four distinct indices, all below the
\* published vertex count
C17_RebuiltFaces ==
    SubdividedOnce =>
        LET corners == Corners(mesh)
            order == EdgeOrder(corners)
            facePoints == {FacePointIndex(mesh, f) : f \in 0..(NumFaces(mesh) - 1)}
            edgePoints == {EdgePointIndex(mesh, order, key) : key \in Range(order)}
        IN  /\ \A n \in 1..Len(corners) :
                 Face(sub.mesh, QuadIndex(mesh, corners[n].face, corners[n].i)).vertices
                    = <<corners[n].v0,
                        EdgePointIndex(mesh, order, corners[n].key),
                        FacePointIndex(mesh, corners[n].face),
                        EdgePointIndex(mesh, order, corners[n].keyPrev)>>
            /\ Cardinality(facePoints) = NumFaces(mesh)
            /\ Cardinality(edgePoints) = Cardinality(UndirectedEdges(mesh))
            /\ facePoints \cap edgePoints = {}
            /\ (facePoints \cup edgePoints) \cap (0..(NumVertices(mesh) - 1)) = {}
            /\ \A q \in 0..(NumFaces(sub.mesh) - 1) :
                  /\ Cardinality(Range(Face(sub.mesh, q).vertices)) = 4
                  /\ \A v \in Range(Face(sub.mesh, q).vertices) :
                        v < NumVertices(sub.mesh)

\* the base vertices the published vertex map gives for self vertex j
VertexToBaseSet(j) == Range(GeometryArrayToBase(sub.map.vertex, j).indices)

\* the self vertices the published vertex map gives for base vertex i
VertexFromBaseSet(i) == Range(GeometryArrayFromBase(sub.map.vertex, i).indices)

\* C18: with iterations = 1, toBase of the face point of face f is the
\* vertex set of f, toBase of the edge point of (u, v) is {u, v}, toBase
\* of an original vertex v is {v}, and j is in fromBase(i) exactly when i
\* is in toBase(j), j being an index of the published mesh
C18_SubdivisionVertexMap ==
    SubdividedOnce =>
        LET order == EdgeOrder(Corners(mesh))
        IN  /\ \A f \in 0..(NumFaces(mesh) - 1) :
                  VertexToBaseSet(FacePointIndex(mesh, f)) = Range(Face(mesh, f).vertices)
            /\ \A key \in Range(order) :
                  VertexToBaseSet(EdgePointIndex(mesh, order, key)) = {key.a, key.b}
            /\ \A v \in 0..(NumVertices(mesh) - 1) : VertexToBaseSet(v) = {v}
            /\ \A i \in 0..(NumVertices(mesh) - 1) :
                  \A j \in 0..(NumVertices(sub.mesh) - 1) :
                     (j \in VertexFromBaseSet(i)) <=> (i \in VertexToBaseSet(j))

\* update() has returned
SubdivisionPublished == Subdivided /\ sub.error = "none"

\* the base face whose corners include corner number c (from 0, counted
\* through the faces in order)
FaceOfCorner(info, c) ==
    CHOOSE f \in 0..(NumFaces(info) - 1) :
        Face(info, f).indicesOffset[1] <= c /\ c < Face(info, f).indicesOffset[2]

RECURSIVE Power4(_)
Power4(k) == IF k <= 0 THEN 1 ELSE 4 * Power4(k - 1)

\* the base face that quad q of level k descends from: every level after
\* the first splits a quad q into the quads 4q .. 4q + 3
DescendsFrom(info, k, q) == FaceOfCorner(info, q \div Power4(k - 1))

\* C19: after update() with iterations = k >= 1 the face map is relative to
\* the original base: F entries on the base side, one entry per published
\* face on the self side, toBase(q) is the one base face q descends from
\* and fromBase(f) is the set of published faces descending from f
C19_FaceMapAcrossIterations ==
    SubdivisionPublished =>
        /\ Len(sub.map.face.base2self.offset1) = NumFaces(mesh)
        /\ Len(sub.map.face.self2base.offset1) = NumFaces(sub.mesh)
        /\ \A q \in 0..(NumFaces(sub.mesh) - 1) :
              GeometryArrayToBase(sub.map.face, q).indices
                 = <<DescendsFrom(mesh, sub.iterations, q)>>
        /\ \A f \in 0..(NumFaces(mesh) - 1) :
              Range(GeometryArrayFromBase(sub.map.face, f).indices)
                 = {q \in 0..(NumFaces(sub.mesh) - 1) :
                       DescendsFrom(mesh, sub.iterations, q) = f}

\* the canonical keys of the edges of the faces of a mesh
CanonicalKeys(info) == {EdgeKey1(e[1], e[2]) : e \in {<<u, v>> \in
    (0..(NumVertices(info) - 1)) \X (0..(NumVertices(info) - 1)) :
        {u, v} \in UndirectedEdges(info)}}

\* C20: every creased key of the example cube is the canonical key of an
\* edge of a cube face, so the adjacency built for the cube has twelve
\* sharp edges and every cube vertex has three of them (its position is
\* kept)
C20_CubeCreases ==
    (Subdivided /\ mesh = ExampleCube) =>
        /\ mesh.edges.creased \subseteq CanonicalKeys(mesh)
        /\ Cardinality(SharpEdges(mesh, Corners(mesh))) = 12
        /\ \A v \in 0..(NumVertices(mesh) - 1) :
              /\ SharpCount(mesh, Corners(mesh), v) = 3
              /\ VertexRule(mesh, Corners(mesh), v) = "none"

\* C21: wherever update() stops, by returning or by throwing, the mesh and
\* the maps published belong to the same level: the self side of the vertex
\* map has one entry per vertex of the published mesh and the self side of
\* the face map one entry per face
C21_NoPartialPublication ==
    Subdivided =>
        /\ Len(sub.map.vertex.self2base.indices) = NumVertices(sub.mesh)
        /\ Len(sub.map.face.self2base.indices) = NumFaces(sub.mesh)

(***************************************************************************)
(* Claims about the chain helper (checked under SpecMap).                  *)
(***************************************************************************)
\* the element count of geometry k of the chain
ChainCount(k) ==
    IF k = 0 THEN Lengths(ab).base
    ELSE IF k = 1 THEN Lengths(ab).self ELSE Lengths(bc).self

\* the element counts differ between the levels of the chain
ChainCountsDiffer ==
    /\ ChainCount(0) # ChainCount(1)
    /\ ChainCount(1) # ChainCount(2)

\* what fromBase(x) of the effective map from G0 to G2 has to hold
ChainFromBase(x) ==
    UNION {IndexSet(FromBase(bc, y)) : y \in IndexSet(FromBase(ab, x))}

\* C22: on a chain G0 <- G1 <- G2 whose element counts differ between the
\* levels, compileGeometryMapsFrom(G2, G0) returns one map from G0 to G2:
\* lengths.base is the count of G0, lengths.self that of G2 and fromBase(x)
\* is the union over y in G1.map.fromBase(x) of G2.map.fromBase(y); with
\* self = base it returns the identity of the size of the base
C22_ChainHelper ==
    cf # None =>
        /\ (cf.self = 2 /\ cf.base = 0 /\ ChainCountsDiffer) =>
              /\ cf.result.kind # "error"
              /\ Lengths(cf.result) = [base |-> ChainCount(0), self |-> ChainCount(2)]
              /\ \A x \in 0..(ChainCount(0) - 1) :
                    IndexSet(FromBase(cf.result, x)) = ChainFromBase(x)
        /\ cf.self = cf.base =>
              cf.result = IdentityGeometryMap(ChainCount(cf.base))

(***************************************************************************)
(* The repeat specification: a TriangulateGeometryFunction and a           *)
(* SubdivisionSurfaceGeometry over one base, whose update() is called      *)
(* again and again.                                                        *)
(***************************************************************************)
\* most calls of update() on one geometry
MaxCalls == 2
\* most faces of a base whose geometries are updated repeatedly
MaxRepeatFaces == 3

\* the base meshes of the repeat specification
RepeatBases == {base \in SubdivisionBases : NumFaces(base) <= MaxRepeatFaces}

InitRepeat ==
    /\ mesh \in RepeatBases
    /\ \E iterations \in 1..MaxIterations :
         rep = [iterations |-> iterations, base |-> mesh,
                tri |-> 0, sub |-> 0, firstTri |-> None, firstSub |-> None]
    /\ ab = None
    /\ bc = None
    /\ cd = None
    /\ ac = None
    /\ chain = None
    /\ mq = None
    /\ nb = None
    /\ fa = None
    /\ fq = None
    /\ tri = None
    /\ sub = None
    /\ cf = None
    /\ tg = None
    /\ cl = None
    /\ sym = None

\* update() of the TriangulateGeometryFunction: everything is derived from
\* this.base.mesh.info and this.mesh and the directions of this.map.face
\* are assigned anew
TriangulateUpdatedAgain ==
    /\ rep.tri < MaxCalls
    /\ tri' = TriangulateUpdate(mesh)
    /\ rep' = [rep EXCEPT !.tri = @ + 1,
                          !.firstTri = IF rep.tri = 0 THEN tri' ELSE @]
    /\ UNCHANGED <<mesh, mq, nb, fa, fq, sub, ab, bc, cd, ac, chain, cf, tg, cl, sym>>

\* an update() that would refine the published mesh once more instead of
\* restarting from the base
SubdivisionUpdatedAccumulating ==
    /\ rep.sub < MaxCalls
    /\ sub' = SubdivisionUpdate(IF sub = None THEN mesh ELSE sub.mesh,
                                rep.iterations)
    /\ rep' = [rep EXCEPT !.sub = @ + 1,
                          !.firstSub = IF rep.sub = 0 THEN sub' ELSE @]
    /\ UNCHANGED <<mesh, mq, tri, nb, fa, fq, ab, bc, cd, ac, chain, cf, tg, cl, sym>>

\* update() of the SubdivisionSurfaceGeometry: this.mesh is set to
\* this.base.mesh and this.map to identity maps before the iterations run
SubdivisionUpdatedAgain ==
    /\ rep.sub < MaxCalls
    /\ sub' = SubdivisionUpdate(mesh, rep.iterations)
    /\ rep' = [rep EXCEPT !.sub = @ + 1,
                          !.firstSub = IF rep.sub = 0 THEN sub' ELSE @]
    /\ UNCHANGED <<mesh, mq, tri, nb, fa, fq, ab, bc, cd, ac, chain, cf, tg, cl, sym>>

NextRepeat ==
    \/ TriangulateUpdatedAgain
    \/ SubdivisionUpdatedAgain

SpecRepeat == InitRepeat /\ [][NextRepeat]_vars

(***************************************************************************)
(* The symmetric specification: a SymmetricGeometryMap is constructed from *)
(* either direction and its directions are assigned again and again.       *)
(***************************************************************************)
\* most assignments to a direction after the construction
MaxWrites == 2

\* the directions handed to the constructor and to the setters: a
\* permutation of 0..n-1 with the identity or a rotation for every element
SymmetricDirections ==
    UNION {[index : IndexPermutations(n), transform : [1..n -> {0, 1}]] :
           n \in 0..MaxPerm}

\* new SymmetricGeometryMap({ self2base }) or ({ base2self })
SymmetricConstruct(initial) ==
    IF initial.name = "self2base"
    THEN SymmetricSetSelf2Base(initial.value)
    ELSE SymmetricSetBase2Self(initial.value)

InitSymmetric ==
    /\ \E name \in {"self2base", "base2self"} :
         \E value \in SymmetricDirections :
            sym = [map |-> SymmetricConstruct([name |-> name, value |-> value]),
                   initial |-> name, last |-> name, given |-> value,
                   writes |-> 0]
    /\ ab = None
    /\ bc = None
    /\ cd = None
    /\ ac = None
    /\ chain = None
    /\ mq = None
    /\ mesh = NoMesh
    /\ nb = None
    /\ fa = None
    /\ fq = None
    /\ tri = None
    /\ sub = None
    /\ cf = None
    /\ tg = None
    /\ cl = None
    /\ rep = None

\* map.self2base = self2base
AssignSelf2Base(self2base) ==
    /\ sym.writes < MaxWrites
    /\ sym' = [sym EXCEPT !.map = SymmetricSetSelf2Base(self2base),
                          !.last = "self2base",
                          !.given = self2base,
                          !.writes = @ + 1]
    /\ UNCHANGED <<ab, bc, cd, ac, chain, mq, mesh, nb, fa, fq, tri, sub, cf, tg, cl, rep>>

\* map.base2self = base2self
AssignBase2Self(base2self) ==
    /\ sym.writes < MaxWrites
    /\ sym' = [sym EXCEPT !.map = SymmetricSetBase2Self(base2self),
                          !.last = "base2self",
                          !.given = base2self,
                          !.writes = @ + 1]
    /\ UNCHANGED <<ab, bc, cd, ac, chain, mq, mesh, nb, fa, fq, tri, sub, cf, tg, cl, rep>>

NextSymmetric ==
    \/ \E self2base \in SymmetricDirections : AssignSelf2Base(self2base)
    \/ \E base2self \in SymmetricDirections : AssignBase2Self(base2self)

SpecSymmetric == InitSymmetric /\ [][NextSymmetric]_vars

(***************************************************************************)
(* Claims about ingest and clone (checked under SpecMesh).                 *)
(***************************************************************************)
\* the ingested geometry is an indexed triangle list of T >= 1 triangles
IngestedTriangleList ==
    /\ tg # None
    /\ tg.geometry.index # None
    /\ Len(tg.geometry.index) >= 3
    /\ Len(tg.geometry.index) % 3 = 0

\* C23: for an indexed triangle list with 3V position floats and 3T indices,
\* T >= 1, fromThreeGeometry raises no error and returns a mesh of V
\* vertices and exactly T faces, face t being the triangle (index[3t],
\* index[3t+1], index[3t+2]) with indicesOffset1[t] = 3(t+1)
C23_Ingest ==
    IngestedTriangleList =>
        /\ tg.result.error = "none"
        /\ NumVertices(tg.result.mesh) = Len(tg.geometry.position) \div 3
        /\ NumFaces(tg.result.mesh) = Len(tg.geometry.index) \div 3
        /\ \A t \in 0..((Len(tg.geometry.index) \div 3) - 1) :
              /\ Face(tg.result.mesh, t).vertices =
                    SubSeq(tg.geometry.index, 3 * t + 1, 3 * t + 3)
              /\ tg.result.mesh.faces.indicesOffset1[t + 1] = 3 * (t + 1)

\* C24: for every mesh and both values of modifiable the clone has the
\* vertices of the source with the same x, y, z at each index, its faces with
\* the same offsets and vertex indices, and its creased keys
C24_Clone ==
    cl # None =>
        /\ cl.info.vertices = mesh.vertices
        /\ cl.info.faces = mesh.faces
        /\ cl.info.edges.creased = mesh.edges.creased

(***************************************************************************)
(* Claims about the symmetric map under assignment (SpecSymmetric).        *)
(***************************************************************************)
\* the direction of the stored map that was written last
LastWritten ==
    IF sym.last = "self2base" THEN sym.map.self2base ELSE sym.map.base2self

\* C25: after the construction from either direction and after any sequence
\* of assignments of permutations of [0, n) to self2base or base2self, the
\* stored directions are inverse permutations of each other and the
\* direction written last is stored exactly as given
C25_SymmetricCoherence ==
    sym # None =>
        /\ Len(sym.map.self2base.index) = Len(sym.map.base2self.index)
        /\ \A j \in 1..Len(sym.map.self2base.index) :
              sym.map.base2self.index[sym.map.self2base.index[j] + 1] = j - 1
        /\ \A i \in 1..Len(sym.map.base2self.index) :
              sym.map.self2base.index[sym.map.base2self.index[i] + 1] = i - 1
        /\ LastWritten = sym.given

\* a map constructed from self2base whose base2self was then assigned a
\* permutation of three elements that is not its own inverse
C25_Witness ==
    /\ sym # None
    /\ sym.initial = "self2base"
    /\ sym.last = "base2self"
    /\ sym.writes = MaxWrites
    /\ sym.given.index = <<1, 2, 0>>

(***************************************************************************)
(* Claims about the lookups of an array map (checked under SpecMap).       *)
(***************************************************************************)
\* the direction of ab the last query read
QueriedDirection ==
    IF mq.dir = "fromBase" THEN ab.base2self ELSE ab.self2base

\* the start offset of the queried key in that direction
QueriedOffset0 ==
    IF mq.index = 0 THEN 0 ELSE QueriedDirection.offset1[mq.index]

\* C26: fromBase(i) and toBase(j) of an ArrayGeometryMap return, for the k-th
\* returned index, the transform stored for entry off0 + k of the direction,
\* off0 being the start offset of the key: the transforms of the key's own
\* entries, not those of the first entries of the buffer
C26_ArrayLookupTransforms ==
    (mq # None /\ ab.kind = "array") =>
        /\ Len(mq.result.transforms) = Len(mq.result.indices)
        /\ \A k \in 1..Len(mq.result.indices) :
              QueriedOffset0 + k <= Len(QueriedDirection.transforms) =>
                 mq.result.transforms[k] = QueriedDirection.transforms[QueriedOffset0 + k]

C28_ArrayIdentitySize ==
    \A n \in 0..MaxN :
        ab = ArrayIdentity(n) =>
            /\ Lengths(ab) = [base |-> n, self |-> n]
            /\ (mq # None /\ mq.index < n) => mq.result.indices = <<mq.index>>
            /\ (ac # None /\ bc = IdentityGeometryMap(n)) => ac # LengthMismatch

(***************************************************************************)
(* Claims about creases under refinement (checked under SpecSubdivide).    *)
(***************************************************************************)
\* the keys of the pairs of vertices consecutive in some face of a mesh
ConsecutiveKeys(info) ==
    {Corners(info)[p].key : p \in 1..Len(Corners(info))}

\* the creased keys of the base that are keys of edges of the base
CreasedBaseEdges == mesh.edges.creased \cap ConsecutiveKeys(mesh)

\* the two child edges of the base edge key in the mesh of the first
\* iteration: from each end to the edge point
ChildEdges(key) ==
    {EdgeKey1(key.a, EdgePointIndex(mesh, EdgeOrder(Corners(mesh)), key)),
     EdgeKey1(EdgePointIndex(mesh, EdgeOrder(Corners(mesh)), key), key.b)}

\* C29: every key of the creased set of the published mesh names two
\* vertices that are consecutive in some face of the published mesh; and
\* with iterations >= 2 the two child edges of a creased base edge are sharp
\* in the adjacency the second iteration builds
C29_CreasesSurviveRefinement ==
    SubdivisionPublished =>
        /\ sub.mesh.edges.creased \subseteq ConsecutiveKeys(sub.mesh)
        /\ sub.iterations >= 2 =>
              \A key \in CreasedBaseEdges :
                 ChildEdges(key) \subseteq
                    SharpEdges(NewMesh(mesh), Corners(NewMesh(mesh)))

(***************************************************************************)
(* Claims about the walks of vertex_neighbors (checked under SpecMesh).    *)
(***************************************************************************)
\* the positions of the neighbors (not the sentinel) in the array returned
EmittedNeighbors ==
    {k \in 1..Len(nb.result.neighbors) : nb.result.neighbors[k].kind = "neighbor"}

\* the oriented face-edges of the neighbor at position k: face and ordinal
NeighborFaceEdges(k) ==
    {<<nb.result.neighbors[k].edges[e].faceEdge.face.index,
       nb.result.neighbors[k].edges[e].faceEdge.edge>> : e \in 1..2}

\* C30: for every mesh, also with a boundary, an isolated vertex, an edge
\* shared by three faces or two fans touching at v only, vertex_neighbors(v)
\* terminates (called without a seed edge it returns its array), every step
\* of either walk has removed at least one oriented face-edge from the pool,
\* and no oriented face-edge at v appears in more than one emitted neighbor
C30_WalksTerminate ==
    nb # None =>
        /\ nb.result.kind \in {"ok", "error"}
        /\ nb.edge_0 = None => nb.result.kind = "ok"
        /\ nb.result.kind = "ok" =>
              /\ Len(KeyedEdgesWith(mesh, nb.vertex)) - Len(nb.result.pool)
                    >= Cardinality(EmittedNeighbors)
              /\ \A j, k \in EmittedNeighbors :
                    j # k => NeighborFaceEdges(j) \cap NeighborFaceEdges(k) = {}

\* vertex 0 of the mesh whose edge 0-1 is shared by three faces was walked:
\* two neighbors are emitted and the third face stays in the pool
C30_NonManifoldWalked ==
    /\ nb # None
    /\ mesh = MeshOf(5, <<<<0, 1, 2>>, <<0, 1, 3>>, <<0, 1, 4>>>>, {})
    /\ nb.vertex = 0
    /\ nb.edge_0 = None
    /\ nb.result.kind = "ok"
    /\ Cardinality(EmittedNeighbors) = 2
    /\ Len(nb.result.pool) = 2

====
